---- MODULE Spec2Model ----
(***************************************************************************)
(* A model of recovery.c (Android recovery, Galaxy version): the command   *)
(* resolution of get_args, the bootloader control block (BCB) checkpoint,  *)
(* finish_recovery, the start-up operation of main and the interactive     *)
(* menu of prompt_and_wait.                                                *)
(*                                                                         *)
(* C strings are sequences of one-character strings; LF, CR and FF stand   *)
(* for '\n', '\r' and the byte 0xFF of erased flash.  A string ends at its *)
(* first NUL byte, so a sequence never holds one.                          *)
(***************************************************************************)
EXTENDS Integers, Sequences, FiniteSets, TLC

\* ------------------------------------------------------------- bounds ----
\* sizeof(boot.recovery); the header gives 1024, scaled down here so that a
\* payload that does not fit is reachable with short arguments.
RECOVERY_SIZE == 30

\* MAX_ARGS of the source is 100; scaled down so that the cap is reachable.
MAX_ARGS == 3

\* Most bytes the environment (children, ui, stderr) appends to the
\* temporary log between two steps of the program.
MaxLog == 1

\* Most menu selections of one prompt_and_wait call.
MaxMenuOps == 1

\* Most finish_recovery calls of one process, where they are made freely.
MaxCalls == 3

\* Most keys the operator presses while the menu is followed key by key.
MaxKeys == 4

\* Most dots counted for one child; further polls print without counting.
MaxDots == 2

\* ---------------------------------------------------------- constants ----
MAX_ARG_LENGTH == 4096

do_reboot == 1

\* ------------------------------------------------------------ strings ----
LF == "LF"

CR == "CR"

FF == "FF"

\* the NULL pointer, where a char* is expected
NULL == <<"NULL">>

\* fopen() returned NULL / the file does not exist
NoFile == <<"NOFILE">>

Min(a, b) == IF a < b THEN a ELSE b

Max(a, b) == IF a > b THEN a ELSE b

Take(s, n) == SubSeq(s, 1, Min(n, Len(s)))

Drop(s, n) == SubSeq(s, n + 1, Len(s))

IsPrefix(p, s) == Len(p) <= Len(s) /\ SubSeq(s, 1, Len(p)) = p

S_recovery == <<"r","e","c","o","v","e","r","y">>

N_send_intent == <<"s","e","n","d","_","i","n","t","e","n","t">>

N_update_package == <<"u","p","d","a","t","e","_","p","a","c","k","a","g","e">>

N_wipe_data == <<"w","i","p","e","_","d","a","t","a">>

N_wipe_cache == <<"w","i","p","e","_","c","a","c","h","e">>

OPTIONS ==
  << [name |-> N_send_intent,    has_arg |-> TRUE,  val |-> "s"],
     [name |-> N_update_package, has_arg |-> TRUE,  val |-> "u"],
     [name |-> N_wipe_data,      has_arg |-> FALSE, val |-> "w"],
     [name |-> N_wipe_cache,     has_arg |-> FALSE, val |-> "c"] >>

BOOT_RECOVERY == "boot-recovery"

\* strlcpy(dst, src, size): at most size-1 characters of src
strlcpy(src, size) == Take(src, size - 1)

strlcat_NoLimit(dst, src, size) == dst \o src

\* strlcat(dst, src, size): append what still fits below size-1 characters
strlcat(dst, src, size) ==
  IF Len(dst) >= size - 1 THEN dst ELSE dst \o Take(src, size - 1 - Len(dst))

\* strtok: skip the leading delimiters, the token runs to the next delimiter
RECURSIVE SkipDelims(_, _)
SkipDelims(s, d) ==
  IF s # <<>> /\ Head(s) \in d THEN SkipDelims(Tail(s), d) ELSE s

RECURSIVE TokenLen(_, _)
TokenLen(s, d) ==
  IF s = <<>> \/ Head(s) \in d THEN 0 ELSE 1 + TokenLen(Tail(s), d)

\* the tokens the successive strtok(s, d), strtok(NULL, d), ... calls return
RECURSIVE strtok_all(_, _)
strtok_all(s, d) ==
  LET t == SkipDelims(s, d)
      n == TokenLen(t, d)
  IN  IF n = 0 THEN <<>> ELSE <<Take(t, n)>> \o strtok_all(Drop(t, n + 1), d)

\* the first strtok(s, d) call: a token, or NULL when s holds only delimiters
strtok_first(s, d) ==
  LET all == strtok_all(s, d) IN IF all = <<>> THEN NULL ELSE Head(all)

\* fgets(buf, size, fp): the characters up to and including the next LF, at
\* most size-1 of them
RECURSIVE LineLen(_)
LineLen(s) ==
  IF s = <<>> THEN 0 ELSE IF Head(s) = LF THEN 1 ELSE 1 + LineLen(Tail(s))

RECURSIVE fgets_all(_, _)
fgets_all(s, size) ==
  IF s = <<>> THEN <<>>
  ELSE LET n == Min(LineLen(s), size - 1)
       IN  <<Take(s, n)>> \o fgets_all(Drop(s, n), size)

\* ----------------------------------------------- bootloader message ------
ZeroBoot == [command |-> "", status |-> "", recovery |-> <<>>]

\* get_bootloader_message into a zeroed structure: on failure the zeroes stay
LoadBoot(stored, ok) == IF ok THEN stored ELSE ZeroBoot

\* the strlcpy/strlcat loop that rebuilds boot.recovery from argv[1..]
RECURSIVE CatArgs(_, _)
CatArgs(dst, args) ==
  IF args = <<>> THEN dst
  ELSE CatArgs(strlcat(strlcat(dst, Head(args), RECOVERY_SIZE), <<LF>>,
                       RECOVERY_SIZE),
               Tail(args))

CheckpointRecovery_SkipEmpty(argv) ==
  IF Len(argv) <= 1 THEN <<>>
  ELSE CatArgs(strlcpy(S_recovery \o <<LF>>, RECOVERY_SIZE), Tail(argv))

CheckpointRecovery(argv) ==
  CatArgs(strlcpy(S_recovery \o <<LF>>, RECOVERY_SIZE), Tail(argv))

IsUnsetByte_ZeroOnly(s) == s = <<>>

\* the first byte of a C string: 0 for the empty string
IsUnsetByte(s) == s = <<>> \/ Head(s) = FF

FileArgs_NoCap(file) ==
  LET lines == fgets_all(file, MAX_ARG_LENGTH)
  IN  [i \in 1..Len(lines) |-> strtok_first(lines[i], {CR, LF})]

\* the arguments the command file gives: one per fgets line, stripped by
\* strtok(buf, "\r\n"); a line of delimiters only gives strtok's NULL
FileArgs(file) ==
  LET lines == Take(fgets_all(file, MAX_ARG_LENGTH), MAX_ARGS - 1)
  IN  [i \in 1..Len(lines) |-> strtok_first(lines[i], {CR, LF})]

\* strdup(NULL) (undefined): either the process dies, or the NULL is carried
\* on and reads as an empty string
NullAsEmpty(args) ==
  [i \in 1..Len(args) |-> IF args[i] = NULL THEN <<>> ELSE args[i]]

\* if (*argc <= 1): the control block is looked at
LookInBcb_Always(argvIn) == TRUE

LookInBcb(argvIn) == Len(argvIn) <= 1

\* if (*argc <= 1): the command file is tried
TryFile_NoArgv(argvIn, argv1) == Len(argvIn) <= 1

TryFile(argvIn, argv1) == Len(argv1) <= 1

\* strlcpy(boot.command, "boot-recovery", sizeof(boot.command));
BootCommand_Kept(loaded) == loaded.command

BootCommand(loaded) == BOOT_RECOVERY

BootStatus_Cleared(loaded) == ""

\* boot.status is not assigned between get_bootloader_message and
\* set_bootloader_message
BootStatus(loaded) == loaded.status

\* get_args(&argc, &argv).  argvIn: the process arguments (argc = Len);
\* loaded: what get_bootloader_message delivered; file: the command file as
\* fopen_root_path finds it (NoFile: it cannot be opened); ub: the outcome of
\* strdup(NULL).
GetArgs(argvIn, loaded, file, ub) ==
  LET terminated == Take(loaded.recovery, RECOVERY_SIZE - 1)
      toks    == strtok_all(terminated, {LF})
      lookBcb == LookInBcb(argvIn)
      useBcb  == lookBcb /\ toks # <<>> /\ Head(toks) = S_recovery
      badMsg  == lookBcb /\ ~useBcb /\ ~IsUnsetByte(terminated)
      argv1   == IF useBcb
                 THEN <<S_recovery>> \o Take(Tail(toks), MAX_ARGS - 1)
                 ELSE argvIn
      tryFile == TryFile(argvIn, argv1)
      opened  == tryFile /\ file # NoFile
      fargs   == IF opened THEN FileArgs(file) ELSE <<>>
      hitNull == \E i \in 1..Len(fargs) : fargs[i] = NULL
      argv2   == IF opened THEN <<argv1[1]>> \o NullAsEmpty(fargs) ELSE argv1
  IN  [ crash    |-> hitNull /\ ub = "crash",
        argv     |-> argv2,
        boot     |-> [command  |-> BootCommand(loaded),
                      status   |-> BootStatus(loaded),
                      recovery |-> CheckpointRecovery(argv2)],
        usedBcb  |-> useBcb,
        bcbArgs  |-> IF useBcb THEN Tail(argv1) ELSE <<>>,
        openedFile |-> opened,
        badMsg   |-> badMsg,
        logs     |-> (IF loaded.command \in {"", "FF"} THEN 0 ELSE 1)
                     + (IF loaded.status \in {"", "FF"} THEN 0 ELSE 1)
                     + (IF useBcb \/ badMsg THEN 1 ELSE 0)
                     + (IF opened THEN 1 ELSE 0),
        loaded   |-> loaded ]

\* ------------------------------------------------------ option parsing ---
NoOpts ==
  [send_intent |-> NULL, update_package |-> NULL,
   wipe_data |-> FALSE, wipe_cache |-> FALSE, crash |-> FALSE]

ApplyOpt_WipeDataOnly(acc, val, optarg) ==
  CASE val = "s" -> [acc EXCEPT !.send_intent = optarg]
    [] val = "u" -> [acc EXCEPT !.update_package = optarg]
    [] val = "w" -> [acc EXCEPT !.wipe_data = TRUE]
    [] val = "c" -> [acc EXCEPT !.wipe_cache = TRUE]

\* the switch on the value getopt_long returns
ApplyOpt(acc, val, optarg) ==
  CASE val = "s" -> [acc EXCEPT !.send_intent = optarg]
    [] val = "u" -> [acc EXCEPT !.update_package = optarg]
    [] val = "w" -> [acc EXCEPT !.wipe_data = TRUE, !.wipe_cache = TRUE]
    [] val = "c" -> [acc EXCEPT !.wipe_cache = TRUE]

RECURSIVE EqPos(_)
EqPos(s) ==
  IF s = <<>> THEN 0
  ELSE IF Head(s) = "=" THEN 1
  ELSE LET r == EqPos(Tail(s)) IN IF r = 0 THEN 0 ELSE r + 1

IsLongOpt(a) == Len(a) > 2 /\ a[1] = "-" /\ a[2] = "-"

\* the getopt_long loop of main over argv[i..]: an element that is no long
\* option of OPTIONS changes nothing ('?' and continue, or a non-option).
\* OPTIONS has no terminating entry: a lookup that finds no exact match and
\* no ambiguity runs past the table (undefined); ub = "crash" is the run where
\* that read faults, ub = "end" the one where it meets a NULL name.
RECURSIVE ParseFrom(_, _, _, _)
ParseFrom(argv, i, acc, ub) ==
  IF i > Len(argv) \/ acc.crash THEN acc
  ELSE
    LET a == argv[i] IN
    IF a = <<"-", "-">> THEN acc
    ELSE IF ~IsLongOpt(a) THEN ParseFrom(argv, i + 1, acc, ub)
    ELSE
      LET body  == Drop(a, 2)
          eq    == EqPos(body)
          name  == IF eq = 0 THEN body ELSE Take(body, eq - 1)
          exact == {k \in 1..Len(OPTIONS) : OPTIONS[k].name = name}
          part  == {k \in 1..Len(OPTIONS) : IsPrefix(name, OPTIONS[k].name)}
          found == IF exact # {} THEN exact
                   ELSE IF Cardinality(part) = 1 THEN part ELSE {}
          overread == exact = {} /\ Cardinality(part) <= 1
      IN  IF overread /\ ub = "crash" THEN [acc EXCEPT !.crash = TRUE]
          ELSE IF found = {} THEN ParseFrom(argv, i + 1, acc, ub)
          ELSE
            LET o == OPTIONS[CHOOSE k \in found : TRUE] IN
            IF o.has_arg
            THEN IF eq # 0
                 THEN ParseFrom(argv, i + 1,
                                ApplyOpt(acc, o.val, Drop(body, eq)), ub)
                 ELSE IF i + 1 <= Len(argv)
                 THEN ParseFrom(argv, i + 2,
                                ApplyOpt(acc, o.val, argv[i + 1]), ub)
                 ELSE ParseFrom(argv, i + 1, acc, ub)
            ELSE IF eq # 0
                 THEN ParseFrom(argv, i + 1, acc, ub)
                 ELSE ParseFrom(argv, i + 1, ApplyOpt(acc, o.val, NULL), ub)

ParseOptions(argv, ub) == ParseFrom(argv, 2, NoOpts, ub)

\* ------------------------------------------------------ finish_recovery --
\* one more byte at the end of the temporary log; a byte is named by its
\* position, so that a copy made twice or out of order shows
LogByte(log) == Append(log, Len(log) + 1)

NoFailure ==
  [intentOpen |-> TRUE, logOpen |-> TRUE, tmpOpen |-> TRUE,
   mount |-> TRUE, unlink |-> TRUE]

Failures ==
  [intentOpen : BOOLEAN, logOpen : BOOLEAN, tmpOpen : BOOLEAN,
   mount : BOOLEAN, unlink : BOOLEAN]

\* fseek(tmplog, tmplog_offset, SEEK_SET): the copy starts behind the bytes
\* the earlier calls copied
SeekOffset_Rewind(st) == 0

SeekOffset(st) == st.tmplog_offset

\* unlink(path) && errno != ENOENT: a command file that is not there is no
\* failure; env.unlink = FALSE is unlink failing with another errno
UnlinkFails_NoEnoent(st, env) == ~env.unlink \/ st.cmdFile = NoFile

UnlinkFails(st, env) == ~env.unlink

\* finish_recovery(send_intent) on the storage st, with the outcome env of
\* its fopen, mount and unlink calls.  Gives the storage afterwards and what
\* the call did: fails (the sub-steps that logged an error), copied (the
\* bytes given to the durable log), reset, removalTried and synced.
FinishRecoveryBody(st, send_intent, env) ==
  LET wantIntent == send_intent # NULL
      intentFail == wantIntent /\ ~env.intentOpen
      intent1 == IF wantIntent /\ env.intentOpen
                 THEN send_intent ELSE st.intentFile
      tmp1    == IF intentFail THEN LogByte(st.tmpLog) ELSE st.tmpLog
      canCopy == env.logOpen /\ env.tmpOpen
      chunk   == IF canCopy
                 THEN SubSeq(tmp1, SeekOffset(st) + 1, Len(tmp1))
                 ELSE <<>>
      off1    == IF canCopy THEN Max(SeekOffset(st), Len(tmp1))
                 ELSE st.tmplog_offset
      tmp2    == IF canCopy THEN tmp1 ELSE LogByte(tmp1)
      warn    == ~env.mount \/ UnlinkFails(st, env)
      gone    == env.mount /\ env.unlink
      tmp3    == IF warn THEN LogByte(tmp2) ELSE tmp2
  IN  [ st |-> [bcb           |-> ZeroBoot,
                cmdFile       |-> IF gone THEN NoFile ELSE st.cmdFile,
                intentFile    |-> intent1,
                cacheLog      |-> st.cacheLog \o chunk,
                tmpLog        |-> tmp3,
                tmplog_offset |-> off1],
        fails        |-> (IF intentFail THEN {"intent"} ELSE {})
                         \cup (IF canCopy THEN {} ELSE {"log"})
                         \cup (IF warn THEN {"unlink"} ELSE {}),
        copied       |-> chunk,
        reset        |-> TRUE,
        removalTried |-> TRUE,
        synced       |-> TRUE ]

\* finish_recovery returning at the first sub-step that fails
FinishRecovery_EarlyReturn(st, send_intent, env) ==
  LET r == FinishRecoveryBody(st, send_intent, env)
  IN  IF r.fails \cap {"intent", "log"} = {} THEN r
      ELSE [ st |-> [st EXCEPT !.tmpLog = LogByte(st.tmpLog)],
             fails |-> r.fails \ {"unlink"}, copied |-> <<>>,
             reset |-> FALSE, removalTried |-> FALSE, synced |-> FALSE ]

\* finish_recovery leaving the control block as it is
FinishRecovery_NoReset(st, send_intent, env) ==
  LET r == FinishRecoveryBody(st, send_intent, env)
  IN  [r EXCEPT !.st.bcb = st.bcb, !.reset = FALSE]

\* finish_recovery opening the intent file for append
FinishRecovery_AppendIntent(st, send_intent, env) ==
  LET r == FinishRecoveryBody(st, send_intent, env)
  IN  IF send_intent # NULL /\ env.intentOpen /\ st.intentFile # NoFile
      THEN [r EXCEPT !.st.intentFile = st.intentFile \o send_intent]
      ELSE r

\* finish_recovery leaving the command file where it is
FinishRecovery_NoUnlink(st, send_intent, env) ==
  LET r == FinishRecoveryBody(st, send_intent, env)
  IN  [r EXCEPT !.st.cmdFile = st.cmdFile, !.removalTried = FALSE]

FinishRecovery(st, send_intent, env) == FinishRecoveryBody(st, send_intent, env)

\* ----------------------------------------------------------- the menu ----
ITEM_REBOOT == 0

ITEM_REBOOT_RECOVERY == 1

ITEM_APPLY_SDCARD == 2

ITEM_APPLY_UPDATE == 3

UMS_ON == 4

UMS_OFF == 5

ITEM_NANDROID == 6

ITEM_RESTORE == 7

ITEM_WIPE_DATA == 8

ITEM_FSCK == 9

ITEM_SD_SWAP_ON == 10

ITEM_SD_SWAP_OFF == 11

ITEM_FORMAT_EXT3 == 12

ITEM_FORMAT_EXT4 == 13

FIX_PERMS == 14

\* get_menu_selection's value for the Back key (negative)
GO_BACK == -5

Items == ITEM_REBOOT..FIX_PERMS

\* items that read one key with ui_wait_key() and go on only for KEY_DREAM_HOME
ConfirmItems ==
  {ITEM_APPLY_SDCARD, ITEM_WIPE_DATA, ITEM_SD_SWAP_ON, ITEM_SD_SWAP_OFF,
   ITEM_FORMAT_EXT3, ITEM_FORMAT_EXT4, FIX_PERMS}

\* items that first show a second menu (slot, file) that Back leaves
SubMenuItems == {ITEM_APPLY_UPDATE, ITEM_NANDROID, ITEM_RESTORE}

\* items whose case ends with "if (!ui_text_visible()) return;" behind the
\* if/else of the confirmation, so that it is read after a decline too
ReturnCheckItems ==
  {ITEM_APPLY_SDCARD, ITEM_SD_SWAP_ON, ITEM_FORMAT_EXT3, ITEM_FORMAT_EXT4,
   FIX_PERMS}

\* where prompt_and_wait goes after the operation of item it ended with
\* outcome ok, with ui_text_visible() = visible: back to the menu, or return
AfterOp(it, ok, visible) ==
  CASE it \in ReturnCheckItems \cup
             {ITEM_REBOOT_RECOVERY, UMS_ON, UMS_OFF, ITEM_WIPE_DATA}
         -> IF visible THEN "menu" ELSE "firmware"
    [] it = ITEM_RESTORE
         -> IF ok /\ ~visible THEN "firmware" ELSE "menu"
    [] OTHER -> "menu"

\* where it goes after a key other than KEY_DREAM_HOME at the confirmation
AfterDecline(it, visible) ==
  IF it \in ReturnCheckItems /\ ~visible THEN "firmware" ELSE "menu"

\* what the operation of a menu item is made of
OpKind(it) ==
  CASE it \in {ITEM_APPLY_SDCARD, ITEM_APPLY_UPDATE} -> "menu:install"
    [] it = ITEM_WIPE_DATA -> "menu:erase"
    [] it \in {UMS_ON, UMS_OFF} -> "menu:sysfs"
    [] OTHER -> "menu:tool"

\* the key that confirms an operation
KEY_DREAM_HOME == "KEY_DREAM_HOME"

\* the keys ui_wait_key() delivers at a confirmation
Keys == {KEY_DREAM_HOME, "KEY_DREAM_BACK", "KEY_DOWN"}

ConfirmAccepts_NotBack(key) == key # "KEY_DREAM_BACK"

\* if (confirm == KEY_DREAM_HOME)
ConfirmAccepts(key) == key = KEY_DREAM_HOME

\* the wait status waitpid() stores for a child, exit code in bits 8..15 and
\* terminating signal in bits 0..6: exit(0), exit(1), the _exit(-1) behind a
\* failed execv, and a death by SIGKILL
ChildStatuses == {0, 1 * 256, 255 * 256, 9}

\* no wait status stored
NoChild == -1

WIFEXITED(st) == st % 128 = 0

WEXITSTATUS(st) == (st \div 256) % 256

ToolMessage_ExitCodeOnly(st) ==
  IF WEXITSTATUS(st) # 0 THEN "failure" ELSE "success"

\* if (!WIFEXITED(status) || (WEXITSTATUS(status) != 0)) error message
\* else success message
ToolMessage(st) ==
  IF ~WIFEXITED(st) \/ WEXITSTATUS(st) # 0 THEN "failure" ELSE "success"

\* the message of the menu wipe: "Data wipe complete, ..." whatever the
\* erase_root calls and the children returned
WipeMessage(eraseFailed, childFailed) == "success"

\* the message after install_package in the menu; with a success and the
\* text not visible the case returns before any message
InstallMessage(r, visible) ==
  IF r # "INSTALL_SUCCESS" THEN "failure"
  ELSE IF visible THEN "success" ELSE "none"

\* what is printed behind the else of the confirmation
DeclineMessage(it) ==
  CASE it \in {ITEM_APPLY_SDCARD, ITEM_APPLY_UPDATE} -> "aborted"
    [] it \in {ITEM_SD_SWAP_ON, ITEM_SD_SWAP_OFF, ITEM_FORMAT_EXT3,
               ITEM_FORMAT_EXT4, FIX_PERMS} -> "complete"
    [] OTHER -> "none"

\* the items whose operation is one forked program with a result message
ToolItems ==
  {ITEM_REBOOT_RECOVERY, ITEM_NANDROID, ITEM_RESTORE, ITEM_FSCK,
   ITEM_SD_SWAP_ON, ITEM_SD_SWAP_OFF, ITEM_FORMAT_EXT3, ITEM_FORMAT_EXT4,
   FIX_PERMS}

\* where the case of an install goes: "Apply sdcard:update.zip" returns on a
\* success with the text not visible (v1) and at its end with the text not
\* visible (v2); choose_update_file only returns to its caller, which breaks
InstallReturn(it, r, v1, v2) ==
  IF it = ITEM_APPLY_SDCARD
  THEN IF r = "INSTALL_SUCCESS" /\ ~v1 THEN "firmware"
       ELSE IF ~v2 THEN "firmware" ELSE "menu"
  ELSE "menu"

\* nothing read, run or printed yet for the chosen item
NoUi ==
  [key |-> "none", ran |-> FALSE, child |-> NoChild, msg |-> "none",
   failed |-> FALSE, visible |-> "none"]

\* what the ui_text_visible() at the end of the case of item it returned,
\* "none" where the case does not call it
Seen(it, ok, visible) ==
  IF \/ it \in ReturnCheckItems
     \/ it \in {ITEM_REBOOT_RECOVERY, UMS_ON, UMS_OFF, ITEM_WIPE_DATA}
     \/ it = ITEM_RESTORE /\ ok
  THEN visible ELSE "none"

\* the last ui_text_visible() read around an install_package of the menu
SeenInstall(it, r, v1, v2) ==
  IF r = "INSTALL_SUCCESS" /\ ~v1 THEN FALSE
  ELSE IF it = ITEM_APPLY_SDCARD THEN v2
  ELSE IF r = "INSTALL_SUCCESS" THEN v1 ELSE "none"

\* -------------------------------------------------------- main's steps ---
\* the operation main starts after the option loop: install_package, the
\* first erase_root, or none ("No command specified")
DispatchTarget_WipeFirst(o) ==
  IF o.wipe_data THEN "erase_data"
  ELSE IF o.wipe_cache THEN "erase_cache"
  ELSE IF o.update_package # NULL THEN "install"
  ELSE "evaluate"

DispatchTarget(o) ==
  IF o.update_package # NULL THEN "install"
  ELSE IF o.wipe_data THEN "erase_data"
  ELSE IF o.wipe_cache THEN "erase_cache"
  ELSE "evaluate"

\* int status = INSTALL_SUCCESS; ... else status = INSTALL_ERROR ("No command
\* specified")
DispatchStatus_Success(o) == "INSTALL_SUCCESS"

DispatchStatus(o) ==
  IF DispatchTarget(o) = "evaluate" THEN "INSTALL_ERROR" ELSE "INSTALL_SUCCESS"

\* if (... && erase_root(...)) status = INSTALL_ERROR;
EraseStatus_Last(st, failed) ==
  IF failed THEN "INSTALL_ERROR" ELSE "INSTALL_SUCCESS"

EraseStatus(st, failed) == IF failed THEN "INSTALL_ERROR" ELSE st

\* the second if of the wipe is not an else of the first: the cache erase
\* follows the data erase whatever that returned
AfterEraseData(o, failed) ==
  IF o.wipe_cache THEN "erase_cache" ELSE "evaluate"

\* what main did for the operator to see, as far as later steps do not show
\* it: an erase_root that failed, the error background, the text visible
\* when main asked
Noted(name, cond) == IF cond THEN {name} ELSE {}

\* if (status != INSTALL_SUCCESS) ui_set_background(BACKGROUND_ICON_ERROR);
ErrorBackground(st) == st # "INSTALL_SUCCESS"

\* if (status != INSTALL_SUCCESS || ui_text_visible()) prompt_and_wait();
EvaluateTarget_StatusOnly(st, visible) ==
  IF st # "INSTALL_SUCCESS" THEN "prompt" ELSE "firmware"

EvaluateTarget(st, visible) ==
  IF st # "INSTALL_SUCCESS" \/ visible THEN "prompt" ELSE "firmware"

\* format_root_device on the cache partition: what it held is gone
CacheErased(st) ==
  [st EXCEPT !.cmdFile = NoFile, !.intentFile = NoFile, !.cacheLog = <<>>]

\* ---------------------------------------------------------- the inputs ---
PROG == <<"p","r","o","g">>

A_wipe_data == <<"-","-">> \o N_wipe_data

A_wipe_cache == <<"-","-">> \o N_wipe_cache

A_update_A == <<"-","-">> \o N_update_package \o <<"=","A">>

A_update_long == <<"-","-">> \o N_update_package \o <<"=","A","B","C","D","E">>

\* an option OPTIONS does not hold
A_unknown == <<"-", "-", "s", "h", "o", "w">>

A_intent_x == <<"-","-">> \o N_send_intent \o <<"=","x">>

ProcArgsInputs ==
  { <<PROG>>,
    <<PROG, A_wipe_data>>,
    <<PROG, A_wipe_cache>>,
    <<PROG, A_update_A>>,
    <<PROG, A_update_long>>,
    <<PROG, A_intent_x, A_wipe_cache>>,
    <<PROG, A_update_A, A_wipe_data>>,
    <<PROG, <<>> >> }

RECURSIVE Repeat(_, _)
Repeat(c, n) == IF n = 0 THEN <<>> ELSE <<c>> \o Repeat(c, n - 1)

BcbInputs ==
  { ZeroBoot,
    [command |-> "FF", status |-> "FF", recovery |-> Repeat(FF, RECOVERY_SIZE)],
    [command |-> BOOT_RECOVERY, status |-> "OKAY",
     recovery |-> S_recovery \o <<LF>> \o A_wipe_data \o <<LF>>],
    [command |-> BOOT_RECOVERY, status |-> "",
     recovery |-> S_recovery \o <<LF>> \o A_update_A],
    [command |-> BOOT_RECOVERY, status |-> "", recovery |-> S_recovery \o <<LF>>],
    [command |-> "", status |-> "", recovery |-> <<"x","y">>],
    [command |-> BOOT_RECOVERY, status |-> "",
     recovery |-> S_recovery \o <<LF,"a",LF,"b",LF,"c",LF,"d",LF>>],
    [command |-> BOOT_RECOVERY, status |-> "",
     recovery |-> <<LF>> \o S_recovery \o <<LF>> \o A_wipe_cache \o <<LF>>] }

CmdFileInputs ==
  { NoFile,
    <<>>,
    A_wipe_data \o <<LF>>,
    A_wipe_cache \o <<CR, LF>>,
    A_update_A \o <<LF>>,
    A_update_long \o <<LF>>,
    A_intent_x \o <<LF>> \o A_wipe_data \o <<LF>>,
    <<LF>>,
    <<"a",LF,"b",LF,"c",LF,"d",LF>> }

\* ------------------------------------------------------------ the state --
VARIABLES
  procArgs,       \* argc/argv as the process got them
  bcb,            \* the stored bootloader control block
  cmdFile,        \* CACHE:recovery/command
  intentFile,     \* CACHE:recovery/intent
  cacheLog,       \* CACHE:recovery/log
  tmpLog,         \* /sdcard/recovery.log
  tmplog_offset,  \* the static of finish_recovery
  pc,             \* where main is
  argv,           \* main's argc/argv after get_args
  opts,           \* send_intent, update_package, wipe_data, wipe_cache
  status,         \* main's status
  fwPending,      \* firmware_update_pending()
  item,           \* chosen_item of prompt_and_wait
  ui,             \* the key, the child and the message of the chosen item
  menuOps,        \* selections made in this prompt_and_wait call
  envLog,         \* bytes the environment has appended to the temporary log
  ga,             \* what get_args did in this run
  ops,            \* what main did in this run: operations begun, failures
  fin,            \* the finish_recovery calls of this run
  gms,            \* the key queue and get_menu_selection's locals
  kids            \* the child processes of the menu item that is running

vars ==
  << procArgs, bcb, cmdFile, intentFile, cacheLog, tmpLog, tmplog_offset, pc,
     argv, opts, status, fwPending, item, ui, menuOps, envLog, ga, ops, fin,
     gms, kids >>

storageVars == << bcb, cmdFile, intentFile, cacheLog, tmpLog, tmplog_offset >>

Storage ==
  [bcb |-> bcb, cmdFile |-> cmdFile, intentFile |-> intentFile,
   cacheLog |-> cacheLog, tmpLog |-> tmpLog, tmplog_offset |-> tmplog_offset]

SetStorage(st) ==
  /\ bcb' = st.bcb
  /\ cmdFile' = st.cmdFile
  /\ intentFile' = st.intentFile
  /\ cacheLog' = st.cacheLog
  /\ tmpLog' = st.tmpLog
  /\ tmplog_offset' = st.tmplog_offset

NoGa == [called |-> FALSE]

NoFin ==
  [calls |-> 0, sites |-> <<>>, received |-> <<>>, intent |-> NULL, fails |-> {},
   unlinkOk |-> FALSE, copied |-> <<>>, reset |-> FALSE,
   removalTried |-> FALSE, synced |-> FALSE, fresh |-> FALSE, repeat |-> FALSE]

\* the sessions main is followed through: no process argument with each
\* source of arguments, and process arguments over a populated block and file
MainInputs ==
  ( { <<PROG>> }
    \X { ZeroBoot,
         [command |-> BOOT_RECOVERY, status |-> "OKAY",
          recovery |-> S_recovery \o <<LF>> \o A_wipe_data \o <<LF>>],
         [command |-> BOOT_RECOVERY, status |-> "",
          recovery |-> S_recovery \o <<LF>> \o A_update_A] }
    \X { NoFile, A_wipe_data \o <<LF>>, A_update_long \o <<LF>>,
         A_intent_x \o <<LF>> \o A_wipe_data \o <<LF>>, <<LF>> } )
  \cup
  ( { <<PROG, A_wipe_cache>>, <<PROG, A_update_A>>,
      <<PROG, A_intent_x, A_wipe_cache>>, <<PROG, A_update_A, A_wipe_data>> }
    \X { ZeroBoot,
         [command |-> BOOT_RECOVERY, status |-> "OKAY",
          recovery |-> S_recovery \o <<LF>> \o A_wipe_data \o <<LF>>] }
    \X { NoFile, A_update_A \o <<LF>> } )
  \cup
  ( { <<PROG, A_intent_x>>, <<PROG, A_unknown>> } \X { ZeroBoot } \X { NoFile } )

\* no child forked: n counts the forks of the item, pid is what the last
\* fork() returned, st the wait status last stored, dots the dots printed
\* since the last fork
NoKids ==
  [n |-> 0, pid |-> 0, running |-> {}, exited |-> {}, st |-> NoChild,
   dots |-> 0]

\* no key waiting, nothing highlighted or chosen, no key acted on yet;
\* last is the key the loop read last and what ui_text_visible() gave then,
\* menu the menu shown (prompt_and_wait's or choose_nandroid_slot's), slota
\* what choose_nandroid_slot returned
NoGms ==
  [queue |-> <<>>, selected |-> 0, presses |-> 0, taken |-> {},
   dropped |-> {}, last |-> [key |-> "none", visible |-> "none"],
   menu |-> "top", slota |-> 0]

\* the intent file an earlier session left behind
StaleIntent == <<"o", "l", "d">>

\* the intent file at start: none, and for the session given --send_intent
\* alone the one of an earlier session
InitialIntent(args) ==
  IF args = <<PROG, A_intent_x>> THEN StaleIntent ELSE NoFile

StartWith(in, at) ==
  /\ \E t \in in : procArgs = t[1] /\ bcb = t[2] /\ cmdFile = t[3]
  /\ intentFile = InitialIntent(procArgs)
  /\ cacheLog = <<>>
  /\ tmpLog = <<1>>
  /\ tmplog_offset = 0
  /\ pc = at
  /\ argv = procArgs
  /\ opts = NoOpts
  /\ status = "INSTALL_SUCCESS"
  /\ fwPending = FALSE
  /\ item = -1
  /\ ui = NoUi
  /\ menuOps = 0
  /\ envLog = 0
  /\ ga = NoGa
  /\ ops = {}
  /\ fin = NoFin
  /\ gms = NoGms
  /\ kids = NoKids

Init == StartWith(MainInputs, "start")

\* every combination of the inputs of get_args
InitArgs == StartWith(ProcArgsInputs \X BcbInputs \X CmdFileInputs, "start")

Terminal == {"crashed", "rebooted", "exited", "fw_reboot", "killed"}

StartupOpPcs == {"install", "erase_data", "erase_cache"}

RECURSIVE AppendN(_, _)
AppendN(log, n) == IF n = 0 THEN log ELSE AppendN(LogByte(log), n - 1)

Stale == [fin EXCEPT !.fresh = FALSE]

\* get_args(&argc, &argv) at the top of main
GetArgsStep ==
  /\ pc = "start"
  /\ \E loadOk \in BOOLEAN, openOk \in BOOLEAN, ub \in {"crash", "empty"} :
       LET r == GetArgs(procArgs, LoadBoot(bcb, loadOk),
                        IF openOk THEN cmdFile ELSE NoFile, ub)
       IN  IF r.crash
           THEN /\ pc' = "crashed"
                /\ UNCHANGED << bcb, argv, ga, tmpLog >>
           ELSE /\ pc' = "parse"
                /\ bcb' = r.boot
                /\ argv' = r.argv
                /\ ga' = [called |-> TRUE, r |-> r]
                /\ tmpLog' = AppendN(tmpLog, r.logs)
  /\ UNCHANGED << kids, gms, procArgs, cmdFile, intentFile, cacheLog, tmplog_offset, opts,
                  status, fwPending, item, ui, menuOps, envLog, ops, fin >>

\* the getopt_long loop and the "Command:" line of main
ParseStep ==
  /\ pc = "parse"
  /\ \E ub \in {"crash", "end"} :
       LET o == ParseOptions(argv, ub)
       IN  IF o.crash
           THEN pc' = "crashed" /\ UNCHANGED << opts, tmpLog >>
           ELSE pc' = "dispatch" /\ opts' = o /\ tmpLog' = LogByte(tmpLog)
  /\ UNCHANGED << kids, gms, procArgs, bcb, cmdFile, intentFile, cacheLog, tmplog_offset,
                  argv, status, fwPending, item, ui, menuOps, envLog, ga, ops, fin >>

\* int status = INSTALL_SUCCESS; and the choice of the start-up operation
Dispatch ==
  /\ pc = "dispatch"
  /\ pc' = DispatchTarget(opts)
  /\ status' = DispatchStatus(opts)
  /\ UNCHANGED << kids, gms, procArgs, storageVars, argv, opts, fwPending, item, ui, menuOps,
                  envLog, ga, ops, fin >>

\* status = install_package(update_package);
InstallPackage ==
  /\ pc = "install"
  /\ \E r \in {"INSTALL_SUCCESS", "INSTALL_ERROR", "INSTALL_CORRUPT"},
        fw \in BOOLEAN :
       /\ status' = r
       /\ fwPending' = (r = "INSTALL_SUCCESS" /\ fw)
  /\ pc' = "evaluate"
  /\ ops' = ops \cup {"install"}
  /\ fin' = Stale
  /\ UNCHANGED << kids, gms, procArgs, storageVars, argv, opts, item, ui, menuOps, envLog, ga >>

\* if (wipe_data && erase_root("DATA:")) status = INSTALL_ERROR;
EraseData ==
  /\ pc = "erase_data"
  /\ \E failed \in BOOLEAN :
       /\ status' = EraseStatus(status, failed)
       /\ pc' = AfterEraseData(opts, failed)
       /\ ops' = ops \cup {"erase_data"} \cup Noted("erase_data_failed", failed)
  /\ fin' = Stale
  /\ UNCHANGED << kids, gms, procArgs, storageVars, argv, opts, fwPending, item, ui, menuOps,
                  envLog, ga >>

\* if (wipe_cache && erase_root("CACHE:")) status = INSTALL_ERROR;
\* a format that fails may or may not have destroyed what the cache held
EraseCache ==
  /\ pc = "erase_cache"
  /\ \E failed \in BOOLEAN, wiped \in BOOLEAN :
       /\ ~failed => wiped
       /\ status' = EraseStatus(status, failed)
       /\ SetStorage(IF wiped THEN CacheErased(Storage) ELSE Storage)
       /\ ops' = ops \cup {"erase_cache"} \cup Noted("erase_cache_failed", failed)
  /\ pc' = "evaluate"
  /\ fin' = Stale
  /\ UNCHANGED << kids, gms, procArgs, argv, opts, fwPending, item, ui, menuOps, envLog, ga >>

\* if (status != INSTALL_SUCCESS || ui_text_visible()) prompt_and_wait();
Evaluate ==
  /\ pc = "evaluate"
  /\ \E visible \in BOOLEAN :
       /\ pc' = EvaluateTarget(status, visible)
       /\ ops' = ops \cup Noted("error_background", ErrorBackground(status))
                     \cup Noted("text_visible", visible)
  /\ UNCHANGED << kids, gms, procArgs, storageVars, argv, opts, status, fwPending, item, ui,
                  menuOps, envLog, ga, fin >>

FinalIntent_Null(o) == NULL

\* the argument of main's own call: finish_recovery(send_intent)
FinalIntent(o) == o.send_intent

\* a finish_recovery(send_intent) call, with main going on at next
DoFinish(send_intent, env, next) ==
  LET r == FinishRecovery(Storage, send_intent, env)
  IN  /\ SetStorage(r.st)
      /\ fin' = [calls |-> fin.calls + 1,
                 sites |-> Append(fin.sites, next),
                 received |-> fin.received \o r.copied,
                 intent |-> send_intent, fails |-> r.fails,
                 unlinkOk |-> env.mount /\ env.unlink,
                 copied |-> r.copied, reset |-> r.reset,
                 removalTried |-> r.removalTried, synced |-> r.synced,
                 fresh |-> TRUE,
                 repeat |-> /\ fin.calls >= 1
                            /\ fin.fresh
                            /\ fin.intent = send_intent
                            /\ fin.fails = {}
                            /\ r.fails \subseteq {"unlink"}
                            /\ env.mount /\ env.unlink]
      /\ pc' = next

\* prompt_and_wait: finish_recovery(NULL); ui_reset_progress();
Prompt ==
  /\ pc = "prompt"
  /\ \E env \in Failures : DoFinish(NULL, env, "menu")
  /\ menuOps' = 0
  /\ UNCHANGED << kids, gms, procArgs, argv, opts, status, fwPending, item, ui, envLog, ga, ops >>

\* chosen_item = get_menu_selection(headers, items, 0) and the switch on it
MenuSelect ==
  /\ pc = "menu"
  /\ \E it \in Items \cup {GO_BACK} :
       /\ it = ITEM_REBOOT \/ menuOps < MaxMenuOps
       /\ item' = it
       /\ menuOps' = IF it = ITEM_REBOOT THEN menuOps ELSE menuOps + 1
       /\ pc' = CASE it = ITEM_REBOOT -> "firmware"
                  [] it = GO_BACK -> "menu"
                  [] it \in SubMenuItems -> "submenu"
                  [] it \in ConfirmItems -> "confirm"
                  [] OTHER -> "menu_op"
  /\ ui' = NoUi
  /\ UNCHANGED << kids, gms, procArgs, storageVars, argv, opts, status, fwPending, envLog,
                  ga, ops, fin >>

\* choose_nandroid_slot / choose_file_menu / choose_update_file's menu: Back,
\* no file or an unmounted sdcard end the case with nothing run.  With a slot
\* chosen, sprintf(strSlot, "SLOT%d", slota) writes six bytes into
\* char strSlot[5] (undefined): the process dies or goes on.
SubMenu ==
  /\ pc = "submenu"
  /\ \E picked \in BOOLEAN, ub \in {"crash", "works"} :
       pc' = IF ~picked THEN "menu"
             ELSE IF item \in {ITEM_NANDROID, ITEM_RESTORE} /\ ub = "crash"
             THEN "crashed"
             ELSE IF item = ITEM_NANDROID THEN "menu_op" ELSE "confirm"
  /\ UNCHANGED << kids, gms, procArgs, storageVars, argv, opts, status, fwPending, item, ui,
                  menuOps, envLog, ga, ops, fin >>

\* int confirm = ui_wait_key(); if (confirm == KEY_DREAM_HOME) ... else ...
Confirm ==
  /\ pc = "confirm"
  /\ \E key \in Keys :
       /\ ui' = [ui EXCEPT !.key = key]
       /\ pc' = IF ConfirmAccepts(key) THEN "menu_op" ELSE "declined"
  /\ UNCHANGED << kids, gms, procArgs, storageVars, argv, opts, status, fwPending, item,
                  menuOps, envLog, ga, ops, fin >>

\* the else of the confirmation: its message, and the end of the case
Declined ==
  /\ pc = "declined"
  /\ \E visible \in BOOLEAN :
       /\ ui' = [ui EXCEPT !.msg = DeclineMessage(item),
                           !.visible = IF item \in ReturnCheckItems
                                       THEN visible ELSE "none"]
       /\ pc' = AfterDecline(item, visible)
  /\ UNCHANGED << kids, gms, procArgs, storageVars, argv, opts, status, fwPending, item,
                  menuOps, envLog, ga, ops, fin >>

\* install_package(SDCARD_PACKAGE_FILE), or the one of choose_update_file
RunInstall ==
  /\ OpKind(item) = "menu:install"
  /\ \E r \in {"INSTALL_SUCCESS", "INSTALL_ERROR", "INSTALL_CORRUPT"},
        v1 \in BOOLEAN, v2 \in BOOLEAN, fw \in BOOLEAN :
       /\ ui' = [ui EXCEPT !.ran = TRUE,
                           !.failed = (r # "INSTALL_SUCCESS"),
                           !.msg = InstallMessage(r, v1),
                           !.visible = SeenInstall(item, r, v1, v2)]
       /\ fwPending' = IF r = "INSTALL_SUCCESS" /\ fw THEN TRUE ELSE fwPending
       /\ pc' = InstallReturn(item, r, v1, v2)
  /\ UNCHANGED storageVars

\* the menu wipe: erase_root("CACHE:"), ("DBDATA:"), ("INTERNAL:"), the
\* mount / rm -rf / sync / umount children and "/sbin/reboot recovery", none
\* of whose results is looked at.  The reboot takes the process down when it
\* works.
RunWipe ==
  /\ OpKind(item) = "menu:erase"
  /\ \E eraseFailed \in BOOLEAN, wiped \in BOOLEAN, childFailed \in BOOLEAN,
        down \in BOOLEAN, visible \in BOOLEAN :
       /\ ~eraseFailed => wiped
       /\ SetStorage(IF wiped THEN CacheErased(Storage) ELSE Storage)
       /\ ui' = [ui EXCEPT !.ran = TRUE,
                           !.failed = (eraseFailed \/ childFailed),
                           !.msg = WipeMessage(eraseFailed, childFailed),
                           !.visible = IF down THEN "none" ELSE visible]
       /\ pc' = IF down THEN "killed" ELSE AfterOp(item, TRUE, visible)
  /\ UNCHANGED fwPending

\* UMS_ON / UMS_OFF: fopen of the sysfs files and fprintf on the result with
\* no check; fprintf(NULL, ...) is undefined: the process dies or goes on
RunSysfs ==
  /\ OpKind(item) = "menu:sysfs"
  /\ \E opened \in BOOLEAN, ub \in {"crash", "works"}, visible \in BOOLEAN :
       IF ~opened /\ ub = "crash"
       THEN pc' = "crashed" /\ UNCHANGED ui
       ELSE /\ ui' = [ui EXCEPT !.ran = TRUE, !.failed = ~opened,
                                !.msg = "success", !.visible = visible]
            /\ pc' = AfterOp(item, TRUE, visible)
  /\ UNCHANGED << storageVars, fwPending >>

\* a forked program and the message on its wait status.  The backup and the
\* restore first mount the sdcard.  A fork that fails leaves the status
\* waitpid was to fill uninitialized: either message.  Of the three children
\* of the filesystem check only e2fsck's status is looked at.
RunTool ==
  /\ OpKind(item) = "menu:tool"
  /\ \E mounted \in BOOLEAN :
       IF item \in {ITEM_NANDROID, ITEM_RESTORE} /\ ~mounted
       THEN /\ ui' = [ui EXCEPT !.failed = TRUE, !.msg = "failure"]
            /\ pc' = "menu"
       ELSE \E forked \in BOOLEAN, visible \in BOOLEAN :
         IF ~forked
         THEN \E garbage \in {"success", "failure"} :
                /\ ui' = [ui EXCEPT !.failed = TRUE, !.msg = garbage,
                                    !.visible =
                                      Seen(item, garbage = "success", visible)]
                /\ pc' = AfterOp(item, garbage = "success", visible)
         ELSE \E st \in ChildStatuses,
                 down \in IF item = ITEM_REBOOT_RECOVERY
                          THEN BOOLEAN ELSE {FALSE} :
                /\ ui' = [ui EXCEPT !.ran = TRUE, !.child = st,
                                    !.failed = (ToolMessage(st) = "failure"),
                                    !.msg = ToolMessage(st),
                                    !.visible =
                                      IF down THEN "none"
                                      ELSE Seen(item,
                                                ToolMessage(st) = "success",
                                                visible)]
                /\ pc' = IF down THEN "killed"
                         ELSE AfterOp(item, ToolMessage(st) = "success",
                                      visible)
  /\ UNCHANGED << storageVars, fwPending >>

\* the operation of the chosen item
MenuOp ==
  /\ pc = "menu_op"
  /\ \/ RunInstall
     \/ RunWipe
     \/ RunSysfs
     \/ RunTool
  /\ fin' = Stale
  /\ UNCHANGED << kids, gms, procArgs, argv, opts, status, item, menuOps, envLog, ga, ops >>

AfterFirmwareCheck_Reboot == "reboot"

\* what main does when maybe_install_firmware_update returns:
\* finish_recovery(send_intent)
AfterFirmwareCheck == "finish"

\* maybe_install_firmware_update(send_intent): with a firmware image pending
\* it writes the BCB ("update-radio/hboot", "--wipe_cache") and reboots.
\* prompt_and_wait is over: its chosen_item and what it showed are gone.
FirmwareUpdate ==
  /\ pc = "firmware"
  /\ \E written \in BOOLEAN :
       IF fwPending /\ written
       THEN /\ pc' = "fw_reboot"
            /\ bcb' = [command |-> "update-radio/hboot", status |-> "",
                       recovery |-> S_recovery \o <<LF>> \o A_wipe_cache \o <<LF>>]
            /\ fin' = Stale
       ELSE /\ pc' = AfterFirmwareCheck
            /\ UNCHANGED << bcb, fin >>
  /\ item' = -1
  /\ ui' = NoUi
  /\ UNCHANGED << kids, gms, procArgs, cmdFile, intentFile, cacheLog, tmpLog,
                  tmplog_offset, argv, opts, status, fwPending, menuOps,
                  envLog, ga, ops >>

\* finish_recovery(send_intent); at the end of main
FinalFinish ==
  /\ pc = "finish"
  /\ \E env \in Failures : DoFinish(FinalIntent(opts), env, "reboot")
  /\ UNCHANGED << kids, gms, procArgs, argv, opts, status, fwPending, item, ui, menuOps,
                  envLog, ga, ops >>

ExitCode_FromStatus(st) ==
  IF st = "INSTALL_SUCCESS" THEN "EXIT_SUCCESS" ELSE "EXIT_FAILURE"

\* return EXIT_SUCCESS; whatever main's status is
ExitCode(st) == "EXIT_SUCCESS"

\* sync(); if (do_reboot) reboot(RB_AUTOBOOT); ... return EXIT_SUCCESS;
\* reboot() comes back when the system call fails.
Reboot ==
  /\ pc = "reboot"
  /\ \E works \in BOOLEAN :
       /\ pc' = IF do_reboot # 0 /\ works THEN "rebooted" ELSE "exited"
       /\ ops' = ops \cup Noted("reboot_called", do_reboot # 0)
                     \cup Noted(ExitCode(status), ~(do_reboot # 0 /\ works))
  /\ UNCHANGED << kids, gms, procArgs, storageVars, argv, opts, status, fwPending, item, ui,
                  menuOps, envLog, ga, fin >>

\* stdout and stderr are the temporary log: a child, the ui or main itself
\* appends to it between the steps above
EnvAppend ==
  /\ pc \notin Terminal
  /\ envLog < MaxLog
  /\ envLog' = envLog + 1
  /\ tmpLog' = LogByte(tmpLog)
  /\ fin' = Stale
  /\ UNCHANGED << kids, gms, procArgs, bcb, cmdFile, intentFile, cacheLog, tmplog_offset,
                  pc, argv, opts, status, fwPending, item, ui, menuOps, ga, ops >>

Next ==
  \/ GetArgsStep
  \/ ParseStep
  \/ Dispatch
  \/ InstallPackage
  \/ EraseData
  \/ EraseCache
  \/ Evaluate
  \/ Prompt
  \/ MenuSelect
  \/ SubMenu
  \/ Confirm
  \/ Declined
  \/ MenuOp
  \/ FirmwareUpdate
  \/ FinalFinish
  \/ Reboot
  \/ EnvAppend

Spec == Init /\ [][Next]_vars

\* get_args and the option loop alone, over every combination of inputs
NextArgs ==
  \/ GetArgsStep
  \/ ParseStep

ArgsSpec == InitArgs /\ [][NextArgs]_vars

\* finish_recovery called any number of times in one process, with any
\* intent, between appends to the temporary log
FinishCall ==
  /\ pc = "calls"
  /\ fin.calls < MaxCalls
  /\ \E send_intent \in {NULL, <<"x">>, <<"y">>}, env \in Failures :
       DoFinish(send_intent, env, "calls")
  /\ UNCHANGED << kids, gms, procArgs, argv, opts, status, fwPending, item, ui, menuOps,
                  envLog, ga, ops >>

InitFinish ==
  StartWith({ <<PROG>> }
            \X { ZeroBoot,
                 [command |-> BOOT_RECOVERY, status |-> "OKAY",
                  recovery |-> S_recovery \o <<LF>> \o A_wipe_data \o <<LF>>] }
            \X { NoFile, A_wipe_data \o <<LF>> },
            "calls")

NextFinish ==
  \/ FinishCall
  \/ EnvAppend

FinishSpec == InitFinish /\ [][NextFinish]_vars

\* ------------------------------------------- the keys of the menu --------
\* the keys the operator presses
MenuKeys == {"KEY_DOWN", "KEY_UP", "KEY_ENTER", "KEY_BACK", KEY_DREAM_HOME}

device_handle_key_Always(key_code, visible) ==
  CASE key_code = "KEY_DOWN" -> "HIGHLIGHT_DOWN"
    [] key_code = "KEY_UP" -> "HIGHLIGHT_UP"
    [] key_code = "KEY_ENTER" -> "SELECT_ITEM"
    [] key_code = "KEY_BACK" -> "GO_BACK"
    [] OTHER -> "NO_ACTION"

\* device_handle_key(key_code, visible)
device_handle_key(key_code, visible) ==
  IF ~visible THEN "NO_ACTION"
  ELSE CASE key_code = "KEY_DOWN" -> "HIGHLIGHT_DOWN"
         [] key_code = "KEY_UP" -> "HIGHLIGHT_UP"
         [] key_code = "KEY_ENTER" -> "SELECT_ITEM"
         [] key_code = "KEY_BACK" -> "GO_BACK"
         [] OTHER -> "NO_ACTION"

\* static char* slots[] = { "Slot 1", "Slot 2", "Slot 3", "Slot 4", NULL };
SLOT_COUNT == 4

\* char strSlot[5];
STRSLOT_SIZE == 5

\* the items of the menu shown: prompt_and_wait's items[], or slots[]
ItemCount(menu) == IF menu = "slot" THEN SLOT_COUNT ELSE FIX_PERMS + 1

ui_menu_select_NoWrap(sel) == sel

\* ui_menu_select(sel): the highlight wraps around at the ends of the list
ui_menu_select(sel) ==
  IF sel < 0 THEN ItemCount(gms.menu) - 1
  ELSE IF sel >= ItemCount(gms.menu) THEN 0 ELSE sel

choose_nandroid_slot_NoShift(chosen) == chosen

\* return get_menu_selection(headers, slots, 0) + 1;
choose_nandroid_slot(chosen) == chosen + 1

ClearKeyQueue_Keep(q) == q

\* ui_clear_key_queue()
ClearKeyQueue(q) == <<>>

\* where the keys that a clearing threw away had been pressed
Dropped(q) ==
  { q[i].at : i \in 1..(Len(q) - Len(ClearKeyQueue(q))) }

keyFrame ==
  << procArgs, storageVars, argv, opts, status, fwPending, ui, menuOps,
     envLog, ga, ops, fin, kids >>

\* the operator presses a key: the input thread queues it.  The key is
\* marked with where the program was when it was pressed.
KeyPress ==
  /\ pc \in {"gms_entry", "gms_wait", "gms_exit", "key_op", "slot_call"}
  /\ gms.presses < MaxKeys
  /\ \E k \in MenuKeys :
       gms' = [gms EXCEPT
                 !.queue = Append(@, [key |-> k,
                                      at |-> pc]),
                 !.presses = @ + 1]
  /\ UNCHANGED << keyFrame, pc, item >>

\* get_menu_selection: ui_clear_key_queue(); ui_start_menu(headers, items);
\* int selected = 0; int chosen_item = -1;
MenuEnter ==
  /\ pc = "gms_entry"
  /\ gms' = [gms EXCEPT !.queue = ClearKeyQueue(@), !.selected = 0,
                         !.dropped = @ \cup Dropped(gms.queue)]
  /\ item' = -1
  /\ pc' = "gms_wait"
  /\ UNCHANGED keyFrame

\* one turn of the while loop: ui_wait_key(), ui_text_visible(),
\* device_handle_key and the switch on the action
MenuKey ==
  /\ pc = "gms_wait"
  /\ gms.queue # <<>>
  /\ \E visible \in BOOLEAN :
       LET k      == Head(gms.queue)
           action == device_handle_key(k.key, visible)
           sel    == CASE action = "HIGHLIGHT_UP" ->
                            ui_menu_select(gms.selected - 1)
                       [] action = "HIGHLIGHT_DOWN" ->
                            ui_menu_select(gms.selected + 1)
                       [] OTHER -> gms.selected
           chosen == CASE action = "SELECT_ITEM" -> gms.selected
                       [] action = "GO_BACK" -> GO_BACK
                       [] OTHER -> -1
       IN  /\ gms' = [gms EXCEPT
                        !.queue = Tail(@),
                        !.selected = sel,
                        !.last = [key |-> k.key, visible |-> visible],
                        !.taken = IF action = "NO_ACTION" THEN @
                                  ELSE @ \cup {k.at}]
           /\ item' = chosen
           /\ pc' = IF chosen = -1 THEN "gms_wait" ELSE "gms_exit"
  /\ UNCHANGED keyFrame

\* ui_end_menu(); ui_clear_key_queue(); return chosen_item; to
\* prompt_and_wait, whose switch runs under if (chosen_item >= 0) and returns
\* for ITEM_REBOOT, or to choose_nandroid_slot, whose caller goes on under
\* if (slota > 0) and otherwise breaks
MenuReturn ==
  /\ pc = "gms_exit"
  /\ LET slota == choose_nandroid_slot(item)
     IN  IF gms.menu = "slot"
         THEN /\ gms' = [gms EXCEPT !.queue = ClearKeyQueue(@),
                                    !.dropped = @ \cup Dropped(gms.queue),
                                    !.slota = slota,
                                    !.menu = IF slota > 0 THEN @ ELSE "top"]
              /\ pc' = IF slota > 0 THEN "key_op" ELSE "gms_entry"
         ELSE /\ gms' = [gms EXCEPT !.queue = ClearKeyQueue(@),
                                    !.dropped = @ \cup Dropped(gms.queue)]
              /\ pc' = CASE item = ITEM_REBOOT -> "key_done"
                         [] item < 0 -> "gms_entry"
                         [] item \in {ITEM_NANDROID, ITEM_RESTORE}
                              -> "slot_call"
                         [] OTHER -> "key_op"
  /\ UNCHANGED << keyFrame, item >>

\* sprintf(strSlot, "SLOT%d", slota): the characters written, without the
\* terminating NUL that sprintf adds
RECURSIVE Decimal(_)
Decimal(n) ==
  IF n < 10 THEN <<n>> ELSE Decimal(n \div 10) \o <<n % 10>>

SlotLabel(slota) == <<"S", "L", "O", "T">> \o Decimal(slota)

\* case ITEM_NANDROID / case ITEM_RESTORE: int slota = choose_nandroid_slot();
SlotCall ==
  /\ pc = "slot_call"
  /\ gms' = [gms EXCEPT !.menu = "slot"]
  /\ pc' = "gms_entry"
  /\ UNCHANGED << keyFrame, item >>

\* the case of the chosen item reads its confirmation with ui_wait_key()
KeyConfirm ==
  /\ pc = "key_op"
  /\ gms.menu = "slot" \/ item \in ConfirmItems
  /\ gms.queue # <<>>
  /\ gms' = [gms EXCEPT !.queue = Tail(@)]
  /\ UNCHANGED << keyFrame, pc, item >>

\* the case ends with break: the for (;;) loop calls get_menu_selection
\* again.  With a slot, sprintf(strSlot, "SLOT%d", slota) wrote past the end
\* of strSlot first (undefined): the process dies or goes on.
KeyOpDone ==
  /\ pc = "key_op"
  /\ \E ub \in {"crash", "works"} :
       pc' = IF gms.menu = "slot" /\ ub = "crash" THEN "crashed"
             ELSE "gms_entry"
  /\ gms' = [gms EXCEPT !.menu = "top"]
  /\ UNCHANGED << keyFrame, item >>

\* prompt_and_wait's loop followed key by key, with an operator who presses
\* keys at any time; it is taken up at its first get_menu_selection call
\* and at the choose_nandroid_slot call of a backup or restore item
KeySpec ==
  /\ \/ StartWith({ <<PROG>> } \X { ZeroBoot } \X { NoFile }, "gms_entry")
     \/ StartWith({ <<PROG>> } \X { ZeroBoot } \X { NoFile }, "slot_call")
  /\ [][ \/ KeyPress
         \/ MenuEnter
         \/ MenuKey
         \/ MenuReturn
         \/ SlotCall
         \/ KeyConfirm
         \/ KeyOpDone ]_vars

\* ------------------------------------- the children of a menu item -------
\* the fork() calls of the case: mount, rm, sync, umount, reboot for
\* ITEM_WIPE_DATA; umount, e2fsck, mount for ITEM_FSCK
ForkCount(it) == IF it = ITEM_WIPE_DATA THEN 5 ELSE 3

\* waitpid(pid, &status, WNOHANG): 0 while the child runs, its pid once it
\* has exited, -1 when there is no such child; pid -1 (a failed fork) waits
\* for any child
waitpid(pid, running, exited) ==
  LET done == { c \in exited : pid = -1 \/ c.pid = pid }
      busy == { c \in running : pid = -1 \/ c = pid }
  IN  IF done # {} THEN (CHOOSE c \in done : TRUE).pid
      ELSE IF busy # {} THEN 0 ELSE -1

PollAgain_Never(r) == FALSE

\* while (waitpid(pid, &status, WNOHANG) == 0)
PollAgain(r) == r = 0

pollFrame ==
  << procArgs, storageVars, argv, opts, status, fwPending, ui, menuOps,
     envLog, ga, ops, fin, gms >>

\* the switch of prompt_and_wait enters the case of the chosen item
ToolBegin ==
  /\ pc = "poll_menu"
  /\ \E it \in {ITEM_WIPE_DATA, ITEM_FSCK} : item' = it
  /\ kids' = [NoKids EXCEPT !.running = kids.running, !.exited = kids.exited]
  /\ pc' = "fork"
  /\ UNCHANGED pollFrame

\* pid_t pid = fork(); the child calls execv and, if that fails, _exit(-1)
ToolFork ==
  /\ pc = "fork"
  /\ \E ok \in BOOLEAN :
       kids' = [kids EXCEPT
                  !.n = @ + 1,
                  !.pid = IF ok THEN kids.n + 1 ELSE -1,
                  !.running = IF ok THEN @ \cup {kids.n + 1} ELSE @,
                  !.dots = 0]
  /\ pc' = "poll"
  /\ UNCHANGED << pollFrame, item >>

\* a running child ends, by exit or by a signal
ChildExit ==
  /\ pc \in {"fork", "poll", "poll_report", "poll_menu"}
  /\ \E c \in kids.running, st \in ChildStatuses :
       kids' = [kids EXCEPT !.running = @ \ {c},
                            !.exited = @ \cup {[pid |-> c, st |-> st]}]
  /\ UNCHANGED << pollFrame, pc, item >>

\* one test of the while condition: ui_print("."); sleep(1); when waitpid
\* gave 0, otherwise the loop ends and the next statement of the case runs
ToolPoll ==
  /\ pc = "poll"
  /\ LET r == waitpid(kids.pid, kids.running, kids.exited)
     IN  IF PollAgain(r)
         THEN /\ kids' = [kids EXCEPT !.dots = Min(@ + 1, MaxDots)]
              /\ pc' = pc
         ELSE /\ kids' = [kids EXCEPT
                            !.exited = { c \in @ : c.pid # r },
                            !.st = IF r <= 0 THEN @
                                   ELSE (CHOOSE c \in kids.exited :
                                           c.pid = r).st]
              /\ pc' = IF kids.n < ForkCount(item) THEN "fork"
                       ELSE "poll_report"
  /\ UNCHANGED << pollFrame, item >>

\* the message after the last loop and break
ToolReport ==
  /\ pc = "poll_report"
  /\ pc' = "poll_menu"
  /\ UNCHANGED << pollFrame, item, kids >>

\* the menu items that run several children one after the other; the
\* controller goes on polling
PollSpec ==
  /\ StartWith({ <<PROG>> } \X { ZeroBoot } \X { NoFile }, "poll_menu")
  /\ [][ \/ ToolBegin
         \/ ToolFork
         \/ ChildExit
         \/ ToolPoll
         \/ ToolReport ]_vars
  /\ WF_vars(ToolPoll)

\* ============================================================ claims =====
RECURSIVE JoinLines(_)
JoinLines(args) ==
  IF args = <<>> THEN <<>> ELSE Head(args) \o <<LF>> \o JoinLines(Tail(args))

\* "recovery\n" followed by each argument and a newline
FullPayload(av) == S_recovery \o <<LF>> \o JoinLines(Tail(av))

\* what get_args resolves in the next run, started with no process argument
\* on the storage as it is now
NextRunArgs == GetArgs(<<procArgs[1]>>, bcb, cmdFile, "empty").argv

WantsWipeOrUpdate(av) ==
  LET o == ParseOptions(av, "end")
  IN  o.wipe_data \/ o.update_package # NULL

\* the argument lines a control block holds behind its marker line
MarkerArgs(rec) ==
  LET t == strtok_all(Take(rec, RECOVERY_SIZE - 1), {LF})
  IN  IF t # <<>> /\ Head(t) = S_recovery THEN Tail(t) ELSE <<>>

\* C1: whenever an install_package or erase_root call of main (or an
\* operation of the menu) is in progress, get_args has written the control
\* block before: command "boot-recovery", recovery "recovery\n" and the
\* resolved arguments (as far as the field holds them), and during the
\* start-up operation that is what the stored block still holds.
C1_CheckpointBeforeOperation ==
  pc \in StartupOpPcs \cup {"menu_op"} =>
    /\ ga.called
    /\ ga.r.boot.command = BOOT_RECOVERY
    /\ ga.r.boot.recovery = Take(FullPayload(argv), RECOVERY_SIZE - 1)
    /\ pc \in StartupOpPcs => bcb = ga.r.boot

C1_Witness ==
  /\ pc = "erase_data"
  /\ bcb.command = BOOT_RECOVERY
  /\ bcb.recovery = S_recovery \o <<LF>> \o A_wipe_data \o <<LF>>

\* C2 (as claimed): in a session that took --wipe_data or --update_package
\* from the command file or the control block, at every point from get_args
\* to the first finish_recovery the next run resolves the same arguments.
C2_SameArgsOnRestart ==
  ( /\ ga.called
    /\ fin.calls = 0
    /\ pc \notin {"crashed", "fw_reboot"}
    /\ Len(procArgs) <= 1
    /\ WantsWipeOrUpdate(argv) )
  => Tail(NextRunArgs) = Tail(argv)

\* C3 (as claimed): right after get_args, resolving again from the control
\* block it wrote, with no process argument, gives the same arguments.
C3_RoundTrip ==
  pc = "parse" => Tail(NextRunArgs) = Tail(argv)

\* C5: with a process argument beyond the program name, get_args returns the
\* process arguments unchanged and takes nothing from the control block or
\* the command file.
C5_ProcessArgsWin ==
  (ga.called /\ Len(procArgs) > 1) =>
    /\ argv = procArgs
    /\ ~ga.r.usedBcb
    /\ ~ga.r.openedFile

C5_Witness ==
  /\ ga.called
  /\ Len(procArgs) > 1
  /\ MarkerArgs(ga.r.loaded.recovery) # <<>>
  /\ cmdFile \notin {NoFile, <<>>}
  /\ argv = procArgs

\* C6: with no process argument and a control block that holds the marker
\* line and at least one argument line, the arguments are those of the
\* control block and the command file is not opened; the command file is
\* opened only when neither the process nor the control block gave one.
C6_BcbBeforeFile ==
  ga.called =>
    /\ (Len(procArgs) <= 1 /\ MarkerArgs(ga.r.loaded.recovery) # <<>>) =>
         /\ Tail(argv) = Take(MarkerArgs(ga.r.loaded.recovery), MAX_ARGS - 1)
         /\ ~ga.r.openedFile
    /\ ga.r.openedFile =>
         /\ Len(procArgs) <= 1
         /\ MarkerArgs(ga.r.loaded.recovery) = <<>>

C6_Witness ==
  /\ ga.called
  /\ Len(procArgs) <= 1
  /\ Tail(argv) = <<A_wipe_data>>
  /\ cmdFile = A_update_A \o <<LF>>
  /\ ~ga.r.openedFile

\* C7: every get_args call that returns stores a control block with command
\* "boot-recovery" and a recovery field that begins "recovery\n", whichever
\* source gave the arguments; with no argument resolved it is "recovery\n".
C7_AlwaysCheckpoints ==
  [][ (pc = "start" /\ pc' = "parse") =>
        /\ bcb'.command = BOOT_RECOVERY
        /\ IsPrefix(S_recovery \o <<LF>>, bcb'.recovery)
        /\ Len(argv') <= 1 => bcb'.recovery = S_recovery \o <<LF>> ]_vars

C7_Witness ==
  /\ pc = "parse"
  /\ Len(procArgs) > 1
  /\ ga.r.loaded.command # BOOT_RECOVERY
  /\ bcb.command = BOOT_RECOVERY
  /\ bcb.recovery = FullPayload(procArgs)

\* C4 (as claimed): while an install, an erase or a tool of the session is in
\* progress, at start-up or from the menu, finish_recovery has not yet reset
\* the control block.
C4_ResetAfterEveryOperation ==
  pc \in StartupOpPcs \cup {"menu_op"} => fin.calls = 0

\* C4 (amended): the reset comes after every operation main starts from the
\* arguments: while one is in progress finish_recovery has not run and the
\* control block holds the checkpoint.  The operations of the menu run after
\* the reset: prompt_and_wait calls finish_recovery(NULL) before it shows the
\* menu, so while one is in progress the control block is already zeroed.
C4_ResetAfterStartupOperations ==
  /\ pc \in StartupOpPcs => fin.calls = 0 /\ bcb.command = BOOT_RECOVERY
  /\ pc = "menu_op" => fin.calls >= 1 /\ bcb = ZeroBoot

C4_Witness ==
  /\ pc = "menu_op"
  /\ item = ITEM_WIPE_DATA
  /\ "install" \in ops
  /\ fin.calls = 1
  /\ bcb = ZeroBoot

\* C8: a finish_recovery call that directly follows another one with the
\* same send_intent (the first without a failure, the second with storage
\* that works) finds and leaves the control block zeroed, leaves the intent
\* file and the durable log as they are, and logs no error: the command
\* file that is already gone is no failure.
C8_FinishIdempotent ==
  [][ (fin'.calls = fin.calls + 1 /\ fin'.repeat) =>
        /\ bcb = ZeroBoot
        /\ bcb' = ZeroBoot
        /\ intentFile' = intentFile
        /\ cacheLog' = cacheLog
        /\ cmdFile = NoFile
        /\ cmdFile' = NoFile
        /\ fin'.fails = {} ]_vars

C8_Witness ==
  /\ fin.repeat
  /\ fin.calls = 2
  /\ fin.intent = <<"x">>
  /\ intentFile = <<"x">>
  /\ fin.fails = {}

\* the bytes of a log are in order and none is there twice
InOrderOnce(log) == \A i \in 1..Len(log) : log[i] = i

\* the durable log holds exactly the first tmplog_offset bytes of the
\* temporary log, each once and in order
DurableLogIsCopiedPrefix ==
  /\ tmplog_offset <= Len(tmpLog)
  /\ cacheLog = SubSeq(tmpLog, 1, tmplog_offset)
  /\ fin.received = cacheLog
  /\ InOrderOnce(cacheLog)

\* C9: whatever finish_recovery calls and appends to the temporary log have
\* happened, the durable log has received exactly the bytes of the temporary
\* log before tmplog_offset, each once and in order, and tmplog_offset only
\* advances.
C9_LogCopiedOnceInOrder ==
  /\ []DurableLogIsCopiedPrefix
  /\ [][tmplog_offset' >= tmplog_offset]_vars

C9_Witness ==
  /\ fin.calls >= 2
  /\ fin.copied # <<>>
  /\ Len(cacheLog) > Len(fin.copied)
  /\ tmplog_offset = Len(tmpLog)

\* C10: every finish_recovery call, whichever of its sub-steps fail, resets
\* the control block, attempts the removal of the command file (which is
\* gone when mount and unlink work) and reaches the sync.
C10_FailureDoesNotStop ==
  [][ fin'.calls = fin.calls + 1 =>
        /\ bcb' = ZeroBoot
        /\ fin'.reset
        /\ fin'.removalTried
        /\ fin'.synced
        /\ fin'.unlinkOk => cmdFile' = NoFile ]_vars

C10_Witness ==
  /\ fin.calls = 1
  /\ fin.fails = {"intent", "log"}
  /\ fin.reset
  /\ bcb = ZeroBoot
  /\ cmdFile = NoFile

\* main is past finish_recovery(send_intent): at the sync, rebooted or exited
AtEndOfMain == pc \in {"reboot", "rebooted", "exited"}

\* inside prompt_and_wait, behind its finish_recovery(NULL)
InMenu == pc \in {"menu", "submenu", "confirm", "declined", "menu_op"}

\* prompt_and_wait was called in this run
EnteredMenu ==
  \/ pc = "prompt"
  \/ InMenu
  \/ fin.sites # <<>> /\ fin.sites[1] = "menu"

\* the statement of C11 as written: one finish_recovery call in every run
\* that reaches the reboot or the exit, carrying send_intent
C11_ExactlyOnce ==
  AtEndOfMain => fin.calls = 1 /\ fin.intent = opts.send_intent

\* C11 (amended): a run of main that reaches the reboot or the exit has
\* called finish_recovery once from main with send_intent, as its last call,
\* and once more before it, with NULL, when and only when prompt_and_wait
\* was entered.
C11_OncePerSite ==
  /\ InMenu => fin.sites = <<"menu">> /\ fin.intent = NULL
  /\ AtEndOfMain =>
       /\ fin.sites \in { <<"reboot">>, <<"menu", "reboot">> }
       /\ fin.calls = Len(fin.sites)
       /\ fin.intent = opts.send_intent
       /\ fin.calls = 2 <=>
            (status # "INSTALL_SUCCESS" \/ "text_visible" \in ops)

C11_Witness ==
  /\ pc = "rebooted"
  /\ fin.sites = <<"menu", "reboot">>
  /\ fin.intent = <<"x">>
  /\ opts.send_intent = <<"x">>

\* main is past its start-up operation
StartupDone ==
  /\ pc \notin {"start", "parse", "dispatch"} \cup StartupOpPcs
  /\ pc = "crashed" => fin.calls >= 1

\* C12: in a data wipe the cache erase is attempted whether or not the data
\* erase failed, and the status is INSTALL_ERROR exactly when one of the two
\* erases failed.
C12_BothErasesAttempted ==
  /\ pc = "erase_data" => opts.wipe_data /\ opts.wipe_cache
  /\ "erase_data" \in ops => pc = "erase_cache" \/ "erase_cache" \in ops
  /\ (StartupDone /\ "erase_data" \in ops) =>
       /\ "erase_cache" \in ops
       /\ status = "INSTALL_ERROR" <=>
            ops \cap {"erase_data_failed", "erase_cache_failed"} # {}

C12_Witness ==
  /\ pc = "evaluate"
  /\ "erase_data_failed" \in ops
  /\ "erase_cache" \in ops
  /\ "erase_cache_failed" \notin ops
  /\ status = "INSTALL_ERROR"

\* C13: with no --update_package, --wipe_cache alone has CACHE: erased and
\* never DATA:, and --wipe_data has both erased; nothing is installed.
C13_WipeTargets ==
  /\ (pc # "start" /\ pc # "parse" /\ pc # "crashed") =>
       /\ Tail(argv) = <<A_wipe_cache>> =>
            opts.wipe_cache /\ ~opts.wipe_data /\ opts.update_package = NULL
       /\ Tail(argv) = <<A_wipe_data>> =>
            opts.wipe_data /\ opts.wipe_cache /\ opts.update_package = NULL
  /\ (opts.update_package = NULL /\ ~opts.wipe_data) => "erase_data" \notin ops
  /\ (StartupDone /\ opts.update_package = NULL) =>
       /\ "install" \notin ops
       /\ opts.wipe_data => {"erase_data", "erase_cache"} \subseteq ops
       /\ (opts.wipe_cache /\ ~opts.wipe_data) =>
            "erase_cache" \in ops /\ "erase_data" \notin ops
       /\ (~opts.wipe_cache /\ ~opts.wipe_data) =>
            ops \cap {"erase_data", "erase_cache"} = {}

C13_Witness ==
  /\ pc = "rebooted"
  /\ Tail(argv) = <<A_wipe_cache>>
  /\ "erase_cache" \in ops
  /\ "erase_data" \notin ops

C15_MenuIffFailedOrVisible ==
  /\ [][ (pc = "evaluate" /\ pc' # "evaluate") =>
           pc' = IF status # "INSTALL_SUCCESS" \/ "text_visible" \in ops'
                 THEN "prompt" ELSE "firmware" ]_vars
  /\ [](StartupDone /\ pc # "evaluate" =>
          (EnteredMenu <=>
             (status # "INSTALL_SUCCESS" \/ "text_visible" \in ops)))

C15_Witness ==
  /\ pc = "prompt"
  /\ status = "INSTALL_SUCCESS"
  /\ "text_visible" \in ops
  /\ "install" \in ops

\* the menu items that install, erase or format
DestructiveItems ==
  {ITEM_APPLY_SDCARD, ITEM_APPLY_UPDATE, ITEM_RESTORE, ITEM_WIPE_DATA,
   ITEM_SD_SWAP_ON, ITEM_SD_SWAP_OFF, ITEM_FORMAT_EXT3, ITEM_FORMAT_EXT4}

\* C16: for every destructive menu item, a key other than KEY_DREAM_HOME at
\* the confirmation has no install_package, erase_root or program launched
\* for that selection, and the step that ends the case leaves storage, the
\* pending firmware and main's status as they were.
C16_DeclineLaunchesNothing ==
  /\ [](item \in DestructiveItems =>
          /\ pc = "menu_op" => ui.key = KEY_DREAM_HOME
          /\ ui.ran => ui.key = KEY_DREAM_HOME
          /\ ui.key \notin {"none", KEY_DREAM_HOME} =>
               ~ui.ran /\ ui.child = NoChild /\ ~ui.failed)
  /\ [][ (item \in DestructiveItems /\ pc = "declined" /\ pc' # pc) =>
           /\ UNCHANGED << storageVars, fwPending, status, ops >>
           /\ ~ui'.ran ]_vars

C16_Witness ==
  /\ pc = "menu"
  /\ item = ITEM_WIPE_DATA
  /\ ui.key = "KEY_DREAM_BACK"
  /\ ~ui.ran
  /\ ui.msg = "none"

\* C17: after a key other than KEY_DREAM_HOME at a confirmation
\* prompt_and_wait shows the menu again and never returns to main.
C17_DeclineShowsMenu ==
  [][ (pc = "declined" /\ pc' # pc) => pc' = "menu" ]_vars

\* C18: every menu operation that ran and failed has the failure message
\* printed and the menu offered again.
C18_FailureReportedThenMenu ==
  (ui.ran /\ ui.failed /\ pc \notin {"menu_op", "killed", "crashed"}) =>
    ui.msg = "failure" /\ pc = "menu"

\* C19: prompt_and_wait returns to main only on "Reboot system now" or
\* right after a menu operation that succeeded with the text not visible,
\* never after a failed or a declined operation.
C19_ReturnsOnlyOnRebootOrSuccess ==
  [][ (InMenu /\ pc' = "firmware") =>
        \/ item' = ITEM_REBOOT
        \/ ui'.ran /\ ~ui'.failed /\ ui'.visible = FALSE ]_vars

\* C20: for every program the menu forks and reports on, the message is the
\* success message exactly when the child exited normally with status 0; a
\* nonzero exit status and a death by signal give the failure message.
C20_MessageFollowsExitStatus ==
  (item \in ToolItems /\ ui.ran) =>
    /\ ui.child \in ChildStatuses
    /\ ui.msg \in {"success", "failure"}
    /\ ui.msg = "success" <=> (WIFEXITED(ui.child) /\ WEXITSTATUS(ui.child) = 0)
    /\ ui.child \in {1 * 256, 255 * 256, 9} => ui.msg = "failure"
    /\ ui.failed <=> ui.msg = "failure"

C20_Witness ==
  /\ pc = "menu"
  /\ item = ITEM_FSCK
  /\ ui.ran
  /\ ui.child = 9
  /\ ui.msg = "failure"

\* the wait status of a child whose execv failed: _exit(-1)
ExecFailed == 255 * 256

\* the program of a tool item could not be launched: fork() failed (no child
\* ran) or execv failed in the child
LaunchFailed ==
  /\ item \in ToolItems
  /\ pc \notin {"menu_op", "killed", "crashed"}
  /\ \/ ui.failed /\ ~ui.ran
     \/ ui.ran /\ ui.child = ExecFailed

\* C21: when the program of a menu operation cannot be launched (fork or
\* exec fails) the operation is reported with its failure message and the
\* menu is shown again; success is never reported.
C21_LaunchFailureReported ==
  LaunchFailed => ui.msg = "failure" /\ pc = "menu"

\* the statement of C22 as written: the stored status field always equals
\* the value get_args loaded
C22_StatusNeverModified ==
  (ga.called /\ pc # "fw_reboot") => bcb.status = ga.r.loaded.status

\* C22 (amended): get_args stores the status field it loaded (zeroes when
\* the load failed), and it stays so until the first finish_recovery call,
\* which stores an all-zero block: from then on the status field is empty.
C22_StatusKeptUntilFinish ==
  (ga.called /\ pc # "fw_reboot") =>
    /\ fin.calls = 0 => bcb.status = ga.r.loaded.status
    /\ fin.calls >= 1 => bcb.status = "" /\ bcb = ZeroBoot

C22_Witness ==
  /\ ga.called
  /\ fin.calls >= 1
  /\ ga.r.loaded.status = "OKAY"
  /\ bcb.status = ""

\* the lines fgets finds in the command file
FileLines(file) == fgets_all(file, MAX_ARG_LENGTH)

\* C23: a control block or a command file with more argument lines than
\* MAX_ARGS - 1 gives an argument count of exactly MAX_ARGS, made of the
\* first MAX_ARGS - 1 lines, with no error reported; the count never exceeds
\* MAX_ARGS for these two sources.
C23_ArgCountCapped ==
  ga.called =>
    /\ (ga.r.usedBcb \/ ga.r.openedFile) => Len(argv) <= MAX_ARGS
    /\ (ga.r.usedBcb /\ Len(MarkerArgs(ga.r.loaded.recovery)) >= MAX_ARGS) =>
         /\ Len(argv) = MAX_ARGS
         /\ Tail(argv) = Take(MarkerArgs(ga.r.loaded.recovery), MAX_ARGS - 1)
         /\ ~ga.r.badMsg
         /\ ~ga.r.openedFile
    /\ (ga.r.openedFile /\ Len(FileLines(cmdFile)) >= MAX_ARGS) =>
         /\ Len(argv) = MAX_ARGS
         /\ \A i \in 1..(MAX_ARGS - 1) :
              argv[i + 1] = strtok_first(FileLines(cmdFile)[i], {CR, LF})
         /\ ga.r.badMsg => ~IsUnsetByte(ga.r.loaded.recovery)

C23_Witness ==
  /\ ga.called
  /\ ga.r.openedFile
  /\ Len(FileLines(cmdFile)) > MAX_ARGS
  /\ Len(argv) = MAX_ARGS
  /\ argv[MAX_ARGS] = <<"b">>

\* the recovery field as get_args reads it, terminated at its last byte
LoadedRecovery == Take(ga.r.loaded.recovery, RECOVERY_SIZE - 1)

\* the field begins with the line "recovery"
BeginsWithMarkerLine(rec) ==
  rec = S_recovery \/ IsPrefix(S_recovery \o <<LF>>, rec)

\* the statement of C24 as written: a field that does not begin with the
\* line "recovery" gives no argument
C24_NoMarkerLineNoArgs ==
  (ga.called /\ Len(procArgs) <= 1 /\ ~BeginsWithMarkerLine(LoadedRecovery)) =>
    ~ga.r.usedBcb /\ ga.r.bcbArgs = <<>>

\* C24 (amended): a recovery field that is erased flash, empty, or whose
\* first non-empty line is not "recovery" gives no argument; get_args does
\* not abort on it and goes on to the command file.  A field whose first
\* byte is 0 or 0xFF is not reported as a bad boot message.  Newlines in
\* front of the marker line are skipped: such a field is taken as marked.
C24_UnmarkedBlockIgnored ==
  /\ (ga.called /\ Len(procArgs) <= 1) =>
       /\ strtok_first(LoadedRecovery, {LF}) # S_recovery =>
            /\ ~ga.r.usedBcb
            /\ ga.r.bcbArgs = <<>>
            /\ Tail(argv) = IF ga.r.openedFile
                            THEN NullAsEmpty(FileArgs(cmdFile)) ELSE <<>>
       /\ strtok_first(LoadedRecovery, {LF}) = S_recovery => ga.r.usedBcb
       /\ (LoadedRecovery = <<>> \/ Head(LoadedRecovery) = FF) =>
            ~ga.r.usedBcb /\ ~ga.r.badMsg
  /\ (pc = "crashed" /\ ~ga.called) =>
       \E i \in 1..Len(FileLines(cmdFile)) :
         strtok_first(FileLines(cmdFile)[i], {CR, LF}) = NULL

C24_Witness ==
  /\ ga.called
  /\ Len(procArgs) <= 1
  /\ LoadedRecovery # <<>>
  /\ Head(LoadedRecovery) = FF
  /\ ~ga.r.usedBcb
  /\ ~ga.r.badMsg
  /\ ga.r.openedFile
  /\ Tail(argv) = <<A_wipe_data>>

\* a line that strtok(buf, "\r\n") finds no token in
IsBlankLine(line) == strtok_first(line, {CR, LF}) = NULL

\* the command file has a blank line among the lines get_args reads
HasBlankLine(file) ==
  /\ file # NoFile
  /\ \E i \in 1..Min(Len(FileLines(file)), MAX_ARGS - 1) :
       IsBlankLine(FileLines(file)[i])

IsArgument(a) == a # NULL

\* C25: a command file with a blank line does not abort the resolution:
\* get_args completes and the blank line is treated as absent.
C25_BlankLineIgnored ==
  /\ ~(pc = "crashed" /\ ~ga.called)
  /\ (ga.called /\ ga.r.openedFile /\ HasBlankLine(cmdFile)) =>
       Tail(argv) = SelectSeq(FileArgs(cmdFile), IsArgument)

\* C26: in a session given --send_intent=<text> the intent file is written
\* only by main's final finish_recovery call, once, and then holds exactly
\* <text> whatever it held before; a finish_recovery(NULL) call leaves it
\* untouched.  (Formatting the cache removes the file.)
C26_IntentWrittenOnceAtEnd ==
  /\ [][ intentFile' # intentFile =>
           \/ /\ pc = "finish"
              /\ opts.send_intent # NULL
              /\ intentFile' = opts.send_intent
           \/ intentFile' = NoFile /\ cacheLog' = <<>> ]_vars
  /\ [][ (fin'.calls = fin.calls + 1 /\ fin'.intent = NULL) =>
           intentFile' = intentFile ]_vars
  /\ []((AtEndOfMain /\ opts.send_intent # NULL /\ "intent" \notin fin.fails) =>
          intentFile = opts.send_intent)

C26_Witness ==
  /\ pc = "rebooted"
  /\ procArgs = <<PROG, A_intent_x>>
  /\ fin.sites = <<"menu", "reboot">>
  /\ opts.send_intent = <<"x">>
  /\ intentFile = <<"x">>

\* C27: when the start-up install failed, the menu waits for its keys only
\* behind a finish_recovery call that has zeroed the control block and
\* tried to remove the command file (gone when the mount and the unlink
\* worked): a power cycle then boots the main system, and nothing is left
\* that would make a later recovery run repeat the failed command.
C27_ResetBeforeMenuWaits ==
  ("install" \in ops /\ status # "INSTALL_SUCCESS" /\ InMenu) =>
    /\ fin.calls = 1
    /\ fin.sites = <<"menu">>
    /\ fin.reset
    /\ bcb = ZeroBoot
    /\ bcb.command # BOOT_RECOVERY
    /\ fin.removalTried
    /\ fin.unlinkOk => cmdFile = NoFile /\ Tail(NextRunArgs) = <<>>

C27_Witness ==
  /\ pc = "menu"
  /\ item = -1
  /\ "install" \in ops
  /\ status = "INSTALL_ERROR"
  /\ ga.r.openedFile
  /\ cmdFile = NoFile
  /\ bcb = ZeroBoot

\* C28: main calls reboot exactly when do_reboot is set, which it always is;
\* when it goes on behind the reboot call it returns EXIT_SUCCESS, also with
\* a status other than INSTALL_SUCCESS: no run returns another exit code.
C28_RebootOrExitSuccess ==
  /\ do_reboot = 1
  /\ pc \in {"rebooted", "exited"} =>
       ("reboot_called" \in ops <=> do_reboot # 0)
  /\ pc = "rebooted" => "reboot_called" \in ops /\ "EXIT_SUCCESS" \notin ops
  /\ pc = "exited" => "EXIT_SUCCESS" \in ops
  /\ "EXIT_FAILURE" \notin ops

C28_Witness ==
  /\ pc = "exited"
  /\ status = "INSTALL_ERROR"
  /\ "install" \in ops
  /\ "EXIT_SUCCESS" \in ops

\* the place of each point of main in its order of steps
Phase(p) ==
  CASE p \in {"start", "parse", "dispatch"} -> 0
    [] p \in StartupOpPcs -> 1
    [] p = "evaluate" -> 2
    [] p = "prompt" \/ p \in {"menu", "submenu", "confirm", "declined",
                              "menu_op"} -> 3
    [] p = "firmware" -> 4
    [] p = "finish" -> 5
    [] p = "reboot" -> 6
    [] OTHER -> 7

\* C29: main goes through the start-up operation, the menu if entered,
\* maybe_install_firmware_update, finish_recovery(send_intent) and the
\* reboot in this order; reboot(RB_AUTOBOOT) is called only behind a
\* finish_recovery call of the same run that reset the control block and
\* tried to remove the command file.
C29_OrderOfMain ==
  /\ [][ /\ Phase(pc') >= Phase(pc)
         /\ (pc' = "evaluate" /\ pc # pc') =>
              pc \in StartupOpPcs \cup {"dispatch"}
         /\ (pc' = "prompt" /\ pc # pc') => pc = "evaluate"
         /\ (pc' = "firmware" /\ pc # pc') => pc = "evaluate" \/ InMenu
         /\ (pc' = "finish" /\ pc # pc') => pc = "firmware"
         /\ (pc' = "reboot" /\ pc # pc') =>
              /\ pc = "finish"
              /\ fin'.calls = fin.calls + 1
              /\ fin'.intent = opts.send_intent
              /\ fin'.reset
              /\ fin'.removalTried
              /\ bcb' = ZeroBoot
         /\ (pc' \in {"rebooted", "exited"} /\ pc # pc') => pc = "reboot"
         /\ ops' \cap {"install", "erase_data", "erase_cache"}
              # ops \cap {"install", "erase_data", "erase_cache"} =>
              pc \in StartupOpPcs
         /\ (ui'.ran /\ ~ui.ran) => pc = "menu_op" ]_vars
  /\ []("reboot_called" \in ops =>
          /\ fin.calls >= 1
          /\ fin.sites[Len(fin.sites)] = "reboot"
          /\ fin.reset
          /\ fin.removalTried
          /\ bcb = ZeroBoot)

C29_Witness ==
  /\ pc = "rebooted"
  /\ "reboot_called" \in ops
  /\ "erase_cache" \in ops
  /\ fin.sites = <<"menu", "reboot">>
  /\ bcb = ZeroBoot

\* C30: every get_menu_selection call empties the key queue when it is
\* entered and when it returns, so the menu is first shown, and shown again
\* after an operation, over an empty queue; only keys pressed while
\* get_menu_selection was waiting for one are acted on as a navigation or a
\* selection, never one pressed while an operation was running.
C30_KeysOutsideMenuDropped ==
  /\ [][ (pc = "gms_entry" /\ pc' = "gms_wait") => gms'.queue = <<>> ]_vars
  /\ [][ (pc = "gms_exit" /\ pc' # pc) => gms'.queue = <<>> ]_vars
  /\ [](gms.taken \subseteq {"gms_wait"})
  /\ [](pc = "gms_wait" =>
          \A i \in 1..Len(gms.queue) : gms.queue[i].at = "gms_wait")

\* a key pressed during an operation was thrown away, the menu is shown again
\* and has acted on a key since
C30_Witness ==
  /\ pc = "gms_wait"
  /\ "key_op" \in gms.dropped
  /\ gms.taken = {"gms_wait"}
  /\ gms.selected = 1
  /\ item = -1

\* C31: in get_menu_selection the highlighted index always lies in
\* 0..item_count-1; an up key taken at the first item highlights the last
\* one, a down key taken at the last item highlights the first one, any other
\* up or down key moves the highlight by one, and the value returned on a
\* select is the highlighted index.
C31_HighlightWrapsAndIsReturned ==
  /\ [](gms.selected \in ITEM_REBOOT..FIX_PERMS)
  /\ [](gms.menu = "slot" => gms.selected \in 0..(SLOT_COUNT - 1))
  /\ [][ (pc = "gms_wait" /\ gms'.queue # gms.queue
          /\ gms'.presses = gms.presses)
         => LET k == Head(gms.queue).key
                n == IF gms.menu = "slot" THEN SLOT_COUNT ELSE FIX_PERMS + 1
            IN  /\ gms'.selected # gms.selected =>
                     \/ k = "KEY_UP"
                          /\ gms'.selected = (gms.selected + n - 1) % n
                     \/ k = "KEY_DOWN"
                          /\ gms'.selected = (gms.selected + 1) % n
                /\ item' >= 0 =>
                     k = "KEY_ENTER" /\ item' = gms.selected
                                     /\ gms'.selected = gms.selected ]_vars

\* the up key at the first item wrapped to the last one, which was then
\* selected and is the value returned
C31_Witness ==
  /\ pc = "gms_exit"
  /\ gms.presses = 2
  /\ gms.queue = <<>>
  /\ gms.selected = FIX_PERMS
  /\ item = FIX_PERMS

\* C32: the recovery field get_args stores has at most RECOVERY_SIZE - 1
\* characters, begins with "recovery\n" and is a prefix of "recovery\n"
\* followed by each resolved argument and a newline: it is that whole text
\* when it fits and its first RECOVERY_SIZE - 1 characters when it does not,
\* and get_args returns to the option loop either way (it fails to return
\* only on a blank line of the command file).
C32_StoredPayloadFitsField ==
  [][ (pc = "start" /\ pc' # pc) =>
        \/ pc' = "crashed" /\ HasBlankLine(cmdFile)
        \/ /\ pc' = "parse"
           /\ Len(bcb'.recovery) <= RECOVERY_SIZE - 1
           /\ IsPrefix(S_recovery \o <<LF>>, bcb'.recovery)
           /\ IsPrefix(bcb'.recovery, FullPayload(argv'))
           /\ bcb'.recovery =
                SubSeq(FullPayload(argv'), 1,
                       Min(Len(FullPayload(argv')), RECOVERY_SIZE - 1)) ]_vars

\* a payload that did not fit was stored cut, and the option loop is next
C32_Witness ==
  /\ pc = "parse"
  /\ Len(FullPayload(argv)) > RECOVERY_SIZE - 1
  /\ Len(bcb.recovery) = RECOVERY_SIZE - 1
  /\ IsPrefix(bcb.recovery, FullPayload(argv))
  /\ ~ga.r.badMsg

\* C33: at most one child of the controller is running at any time; a poll
\* made while the child runs prints one dot, stays in the loop and forks
\* nothing; and once the child waited for has exited, the poll loop ends: the
\* controller goes on to the next step of the case or to its message.
C33_OneChildPolledToItsEnd ==
  /\ [](Cardinality(kids.running) + Cardinality(kids.exited) <= 1)
  /\ [][ (pc = "poll" /\ kids.pid \in kids.running /\ kids'.running = kids.running)
         => /\ pc' = "poll"
            /\ kids'.n = kids.n
            /\ kids'.dots = IF kids.dots < MaxDots THEN kids.dots + 1
                            ELSE MaxDots ]_vars
  /\ [][ (kids'.n # kids.n /\ kids.n # 0 /\ kids'.n # 0)
         => kids.running = {} /\ kids.exited = {} ]_vars
  /\ ((pc = "poll" /\ kids.pid \notin kids.running)
        ~> (pc \in {"fork", "poll_report"}))

\* the e2fsck child of ITEM_FSCK was polled while it ran, has exited and has
\* been collected, and the third child is running
C33_Witness ==
  /\ item = ITEM_FSCK
  /\ pc = "poll"
  /\ kids.n = 3
  /\ kids.running = {3}
  /\ kids.exited = {}
  /\ kids.st = 256
  /\ kids.dots = 1

\* C34 (as claimed): when install_package, started from the menu by "Apply
\* sdcard:update.zip" or by "Apply any zip from sd", succeeds and the text is
\* not visible, prompt_and_wait returns (main goes on to the firmware check
\* and the reboot) instead of showing the menu again.
C34_HiddenMenuInstallReturns ==
  [][ ( /\ pc = "menu_op"
        /\ item \in {ITEM_APPLY_SDCARD, ITEM_APPLY_UPDATE}
        /\ ui'.ran /\ ~ui'.failed /\ ui'.visible = FALSE )
      => pc' = "firmware" ]_vars

\* C35 (as claimed): in a session given --send_intent, every finish_recovery
\* call that zeroes the stored control block leaves the intent file holding
\* the intent text.
C35_IntentBeforeEveryReset ==
  [][ (opts.send_intent # NULL /\ fin'.calls = fin.calls + 1
       /\ bcb' = ZeroBoot)
      => intentFile' = opts.send_intent ]_vars

\* C35 (amended): in a session given --send_intent, main's final
\* finish_recovery call zeroes the control block with the intent text in the
\* intent file whenever that file could be opened, so a session that never
\* shows the menu has the intent written by the time the block is zeroed;
\* the finish_recovery(NULL) of prompt_and_wait zeroes the block and leaves
\* the intent file as it was.
C35_IntentBeforeFinalReset ==
  /\ [][ (opts.send_intent # NULL /\ fin'.calls = fin.calls + 1) =>
           /\ bcb' = ZeroBoot
           /\ \/ /\ pc = "prompt"
                 /\ intentFile' = intentFile
              \/ /\ pc = "finish"
                 /\ \/ "intent" \in fin'.fails /\ intentFile' = intentFile
                    \/ intentFile' = opts.send_intent ]_vars
  /\ []((opts.send_intent # NULL /\ fin.calls >= 1 /\ fin.sites[1] = "reboot"
         /\ "intent" \notin fin.fails)
        => intentFile = opts.send_intent)
  /\ []((opts.send_intent # NULL /\ fin.calls = 0 /\ ga.called
         /\ pc \notin Terminal)
        => bcb.command = BOOT_RECOVERY)

\* a session with --send_intent that never showed the menu: the block is
\* zeroed and the intent file holds the text
C35_Witness ==
  /\ pc = "reboot"
  /\ opts.send_intent = <<"x">>
  /\ fin.sites = <<"reboot">>
  /\ bcb = ZeroBoot
  /\ intentFile = <<"x">>

\* C36: with --update_package and a wipe option both resolved, main's
\* start-up operation is install_package alone: main calls erase_root for no
\* root, before or after the install and whatever the install returned.
C36_UpdateWinsOverWipe ==
  (opts.update_package # NULL /\ (opts.wipe_data \/ opts.wipe_cache)) =>
    /\ pc \notin {"erase_data", "erase_cache"}
    /\ ops \cap {"erase_data", "erase_cache", "erase_data_failed",
                 "erase_cache_failed"} = {}
    /\ StartupDone => "install" \in ops

\* the install failed with a wipe option resolved as well, and no erase
\* followed
C36_Witness ==
  /\ StartupDone
  /\ opts.update_package # NULL
  /\ opts.wipe_data /\ opts.wipe_cache
  /\ status = "INSTALL_ERROR"
  /\ "install" \in ops
  /\ "erase_data" \notin ops

\* C37: a key that get_menu_selection reads while ui_text_visible() is false
\* is no action: the highlight stays where it is, no item and no Back is
\* chosen, and the loop waits for the next key.
C37_HiddenTextNoSelection ==
  [][ (pc = "gms_wait" /\ gms'.queue # gms.queue
       /\ gms'.presses = gms.presses /\ gms'.last.visible = FALSE)
      => /\ gms'.selected = gms.selected
         /\ gms'.taken = gms.taken
         /\ item' = -1
         /\ pc' = "gms_wait" ]_vars

\* the select key was read with the text hidden, after the highlight had been
\* moved with the text shown: nothing is chosen, the highlight is where it was
C37_Witness ==
  /\ pc = "gms_wait"
  /\ gms.last.key = "KEY_ENTER"
  /\ gms.last.visible = FALSE
  /\ gms.selected = 1
  /\ gms.presses = 2
  /\ gms.queue = <<>>
  /\ item = -1

\* C38: a Back key read in a menu launches nothing.  In the top-level menu
\* prompt_and_wait enters no case and calls get_menu_selection again; in the
\* slot menu choose_nandroid_slot returns a value that is not positive, the
\* case runs nothing and the top-level menu is shown again.  A selection in
\* the slot menu gives a slot number in 1..SLOT_COUNT, with which the case
\* goes on.
C38_BackLaunchesNothing ==
  /\ [][ (pc = "gms_exit" /\ pc' # pc /\ item = GO_BACK) =>
           /\ pc' = "gms_entry"
           /\ gms'.menu = "top"
           /\ gms.menu = "slot" => gms'.slota <= 0 ]_vars
  /\ [][ (pc = "gms_exit" /\ pc' # pc /\ gms.menu = "slot" /\ item # GO_BACK) =>
           /\ gms'.slota = gms.selected + 1
           /\ gms'.slota \in 1..SLOT_COUNT
           /\ pc' = "key_op" ]_vars
  /\ []((pc = "key_op" /\ gms.menu = "slot") => gms.slota \in 1..SLOT_COUNT)
  /\ [](pc = "key_op" => item >= 0)

\* the Back key was read in the slot menu: choose_nandroid_slot gave a
\* value below 1 and the top-level menu is next, nothing was run
C38_Witness ==
  /\ pc = "gms_entry"
  /\ gms.last.key = "KEY_BACK"
  /\ gms.menu = "top"
  /\ gms.slota < 1
  /\ item = GO_BACK
  /\ "slot_call" \notin gms.dropped
  /\ gms.presses = 1

\* C39 (as claimed): the label sprintf writes for the slot chosen, "SLOT"
\* with the slot number and the terminating NUL, takes no more than the
\* STRSLOT_SIZE bytes of strSlot.
C39_SlotLabelFits ==
  (pc = "key_op" /\ gms.menu = "slot") =>
    Len(SlotLabel(gms.slota)) + 1 <= STRSLOT_SIZE

====
